---- MODULE Spec2Model ----
(***************************************************************************)
(* A model of nicholas-fedor/touch: flag processing (processFlags),        *)
(* timestamp resolution (calculateTimestamps, ParsePosixTime, ParseDate,   *)
(* GetTimesFromRef), the per-file engine (core.Touch) and the concurrent   *)
(* dispatcher (applyToFiles), driven by RunTouch.                          *)
(*                                                                         *)
(* Strings that the program inspects character by character (stamps,       *)
(* dates, the --time value, file operands) are sequences of one-character  *)
(* strings.  A point in time is a record of its local calendar fields.     *)
(***************************************************************************)
EXTENDS Integers, Sequences, FiniteSets, TLC

VARIABLES
    pc,          \* position of the main goroutine inside RunTouch / applyToFiles
    cmd,         \* the parsed cobra flags
    args,        \* the positional arguments
    goos,        \* runtime.GOOS
    posixly,     \* value of the POSIXLY_CORRECT environment variable
    clock,       \* the wall clock read by core.Now / time.Now
    fs,          \* the file system: path -> [exists, atime, mtime]
    stderr,      \* lines written to os.Stderr, in order
    mainCalls,   \* file-system calls made by the main goroutine, in order
    opts,        \* what processFlags returned to RunTouch
    res,         \* what calculateTimestamps returned to RunTouch
    ret,         \* the error returned by the function under execution
    loopIdx,     \* applyToFiles: number of range iterations completed
    wg,          \* applyToFiles: sync.WaitGroup counter
    hadError,    \* applyToFiles: atomic.Bool
    tasks        \* applyToFiles: one record per launched goroutine

vars == <<pc, cmd, args, goos, posixly, clock, fs, stderr, mainCalls, opts,
          res, ret, loopIdx, wg, hadError, tasks>>

----------------------------------------------------------------------------
(* Bounds of the model.                                                    *)

MaxArgs == 2

----------------------------------------------------------------------------
(* Strings.                                                                *)

EmptyStr == <<>>

Digits == <<"0", "1", "2", "3", "4", "5", "6", "7", "8", "9">>

IsDigit(c) == \E i \in 1..10 : Digits[i] = c

DigitVal(c) == (CHOOSE i \in 1..10 : Digits[i] = c) - 1

UpperChars == <<"A", "B", "C", "D", "E", "F", "G", "H", "I", "J", "K", "L", "M",
                "N", "O", "P", "Q", "R", "S", "T", "U", "V", "W", "X", "Y", "Z">>

LowerChars == <<"a", "b", "c", "d", "e", "f", "g", "h", "i", "j", "k", "l", "m",
                "n", "o", "p", "q", "r", "s", "t", "u", "v", "w", "x", "y", "z">>

LowerChar(c) ==
    IF \E i \in 1..26 : UpperChars[i] = c
    THEN LowerChars[CHOOSE i \in 1..26 : UpperChars[i] = c]
    ELSE c

ToLower(s) == [i \in 1..Len(s) |-> LowerChar(s[i])]

IndexOf(s, c) ==
    IF \E i \in 1..Len(s) : s[i] = c
    THEN (CHOOSE i \in 1..Len(s) : s[i] = c /\ \A j \in 1..(i - 1) : s[j] # c) - 1
    ELSE -1

\* Go's s[lo:hi] with 0-based, half-open bounds.
Slice(s, lo, hi) == SubSeq(s, lo + 1, hi)

\* strconv.Atoi on a short decimal field: an optional sign, then digits only.
AtoiOk(s) ==
    LET body == IF Len(s) > 0 /\ s[1] \in {"+", "-"} THEN Tail(s) ELSE s
    IN  Len(body) > 0 /\ \A i \in 1..Len(body) : IsDigit(body[i])

RECURSIVE DecVal(_)
DecVal(s) == IF Len(s) = 0 THEN 0
             ELSE 10 * DecVal(SubSeq(s, 1, Len(s) - 1)) + DigitVal(s[Len(s)])

Atoi(s) ==
    IF s[1] = "-" THEN 0 - DecVal(Tail(s))
    ELSE IF s[1] = "+" THEN DecVal(Tail(s))
    ELSE DecVal(s)

----------------------------------------------------------------------------
(* Points in time.                                                         *)

IsLeap(y) == (y % 4 = 0 /\ y % 100 # 0) \/ y % 400 = 0

DaysIn(y, m) ==
    IF m = 2 THEN (IF IsLeap(y) THEN 29 ELSE 28)
    ELSE IF m \in {4, 6, 9, 11} THEN 30
    ELSE 31

\* time.Date(year, month, day, hour, min, sec, 0, time.Local) for the field
\* ranges the parsers let through: values past the end of a unit carry into
\* the next one (second 60 is minute+1, April 31 is May 1).
Date(year, month, day, hour, minute, second) ==
    LET s1 == second % 60
        m0 == minute + (second \div 60)
        m1 == m0 % 60
        h0 == hour + (m0 \div 60)
        h1 == h0 % 24
        d0 == day + (h0 \div 24)
        over == d0 > DaysIn(year, month)
        d1 == IF over THEN d0 - DaysIn(year, month) ELSE d0
        mo0 == IF over THEN month + 1 ELSE month
        mo1 == IF mo0 > 12 THEN 1 ELSE mo0
        y1 == IF mo0 > 12 THEN year + 1 ELSE year
    IN  [year |-> y1, month |-> mo1, day |-> d1,
         hour |-> h1, minute |-> m1, second |-> s1]

\* core.Time{} : the zero value of time.Time, 00:00:00 UTC on January 1 of
\* year 1.  The model's times are wall-clock readings of a process whose
\* local zone is UTC.
ZeroTime == [year |-> 1, month |-> 1, day |-> 1,
             hour |-> 0, minute |-> 0, second |-> 0]

----------------------------------------------------------------------------
(* internal/timestamp: ParsePosixTime.                                     *)

posixSecondsLength == 2
posixFullLength == 12
posixYearLength == 10
posixMonthLength == 8
centuryMultiplier == 100
y2kBase == 1900
y2kPivot == 69
y2kShift == 100
minMonth == 1
maxMonth == 12
minDay == 1
maxDay == 31
minHour == 0
maxHour == 23
minuteMin == 0
minuteMax == 59
minSecond == 0
maxSecond == 61

Ok(t) == [ok |-> TRUE, time |-> t, err |-> "nil"]
Fail(e) == [ok |-> FALSE, time |-> ZeroTime, err |-> e]

\* A ParsePosixTime that rejects a day its month does not have.
ParsePosixFields_Calendar(ts, second, nowYear) ==
    LET length == Len(ts)
        known == length \in {posixFullLength, posixYearLength, posixMonthLength}
        yearOk ==
            IF length = posixFullLength
            THEN AtoiOk(Slice(ts, 0, 2)) /\ AtoiOk(Slice(ts, 2, 4))
            ELSE IF length = posixYearLength THEN AtoiOk(Slice(ts, 0, 2))
            ELSE TRUE
        year ==
            IF length = posixFullLength
            THEN Atoi(Slice(ts, 0, 2)) * centuryMultiplier + Atoi(Slice(ts, 2, 4))
            ELSE IF length = posixYearLength
            THEN (IF Atoi(Slice(ts, 0, 2)) < y2kPivot
                  THEN y2kBase + Atoi(Slice(ts, 0, 2)) + y2kShift
                  ELSE y2kBase + Atoi(Slice(ts, 0, 2)))
            ELSE nowYear
        rest ==
            IF length = posixFullLength THEN Slice(ts, 4, length)
            ELSE IF length = posixYearLength THEN Slice(ts, 2, length)
            ELSE ts
        month == Atoi(Slice(rest, 0, 2))
        day == Atoi(Slice(rest, 2, 4))
        hour == Atoi(Slice(rest, 4, 6))
        minuteValue == Atoi(Slice(rest, 6, 8))
    IN  IF ~known THEN Fail("ErrInvalidPosixLength")
        ELSE IF ~yearOk THEN Fail("atoi year")
        ELSE IF ~AtoiOk(Slice(rest, 0, 2)) THEN Fail("atoi month")
        ELSE IF ~AtoiOk(Slice(rest, 2, 4)) THEN Fail("atoi day")
        ELSE IF ~AtoiOk(Slice(rest, 4, 6)) THEN Fail("atoi hour")
        ELSE IF ~AtoiOk(Slice(rest, 6, 8)) THEN Fail("atoi minute")
        ELSE IF month < minMonth \/ month > maxMonth \/ day < minDay \/ day > DaysIn(year, month)
                \/ hour < minHour \/ hour > maxHour
                \/ minuteValue < minuteMin \/ minuteValue > minuteMax
        THEN Fail("ErrInvalidDateTimeValues")
        ELSE Ok(Date(year, month, day, hour, minuteValue, second))

\* A ParsePosixTime whose two-digit years up to 69 fall in the 2000s.
ParsePosixFields_PivotSeventy(ts, second, nowYear) ==
    LET length == Len(ts)
        known == length \in {posixFullLength, posixYearLength, posixMonthLength}
        yearOk ==
            IF length = posixFullLength
            THEN AtoiOk(Slice(ts, 0, 2)) /\ AtoiOk(Slice(ts, 2, 4))
            ELSE IF length = posixYearLength THEN AtoiOk(Slice(ts, 0, 2))
            ELSE TRUE
        year ==
            IF length = posixFullLength
            THEN Atoi(Slice(ts, 0, 2)) * centuryMultiplier + Atoi(Slice(ts, 2, 4))
            ELSE IF length = posixYearLength
            THEN (IF Atoi(Slice(ts, 0, 2)) <= y2kPivot
                  THEN y2kBase + Atoi(Slice(ts, 0, 2)) + y2kShift
                  ELSE y2kBase + Atoi(Slice(ts, 0, 2)))
            ELSE nowYear
        rest ==
            IF length = posixFullLength THEN Slice(ts, 4, length)
            ELSE IF length = posixYearLength THEN Slice(ts, 2, length)
            ELSE ts
        month == Atoi(Slice(rest, 0, 2))
        day == Atoi(Slice(rest, 2, 4))
        hour == Atoi(Slice(rest, 4, 6))
        minuteValue == Atoi(Slice(rest, 6, 8))
    IN  IF ~known THEN Fail("ErrInvalidPosixLength")
        ELSE IF ~yearOk THEN Fail("atoi year")
        ELSE IF ~AtoiOk(Slice(rest, 0, 2)) THEN Fail("atoi month")
        ELSE IF ~AtoiOk(Slice(rest, 2, 4)) THEN Fail("atoi day")
        ELSE IF ~AtoiOk(Slice(rest, 4, 6)) THEN Fail("atoi hour")
        ELSE IF ~AtoiOk(Slice(rest, 6, 8)) THEN Fail("atoi minute")
        ELSE IF month < minMonth \/ month > maxMonth \/ day < minDay \/ day > maxDay
                \/ hour < minHour \/ hour > maxHour
                \/ minuteValue < minuteMin \/ minuteValue > minuteMax
        THEN Fail("ErrInvalidDateTimeValues")
        ELSE Ok(Date(year, month, day, hour, minuteValue, second))

\* The part of ParsePosixTime after the optional ".ss" suffix was split off:
\* ts is the digit run, second the parsed seconds, nowYear time.Now().Year().
ParsePosixFields(ts, second, nowYear) ==
    LET length == Len(ts)
        known == length \in {posixFullLength, posixYearLength, posixMonthLength}
        yearOk ==
            IF length = posixFullLength
            THEN AtoiOk(Slice(ts, 0, 2)) /\ AtoiOk(Slice(ts, 2, 4))
            ELSE IF length = posixYearLength THEN AtoiOk(Slice(ts, 0, 2))
            ELSE TRUE
        year ==
            IF length = posixFullLength
            THEN Atoi(Slice(ts, 0, 2)) * centuryMultiplier + Atoi(Slice(ts, 2, 4))
            ELSE IF length = posixYearLength
            THEN (IF Atoi(Slice(ts, 0, 2)) < y2kPivot
                  THEN y2kBase + Atoi(Slice(ts, 0, 2)) + y2kShift
                  ELSE y2kBase + Atoi(Slice(ts, 0, 2)))
            ELSE nowYear
        rest ==
            IF length = posixFullLength THEN Slice(ts, 4, length)
            ELSE IF length = posixYearLength THEN Slice(ts, 2, length)
            ELSE ts
        month == Atoi(Slice(rest, 0, 2))
        day == Atoi(Slice(rest, 2, 4))
        hour == Atoi(Slice(rest, 4, 6))
        minuteValue == Atoi(Slice(rest, 6, 8))
    IN  IF ~known THEN Fail("ErrInvalidPosixLength")
        ELSE IF ~yearOk THEN Fail("atoi year")
        ELSE IF ~AtoiOk(Slice(rest, 0, 2)) THEN Fail("atoi month")
        ELSE IF ~AtoiOk(Slice(rest, 2, 4)) THEN Fail("atoi day")
        ELSE IF ~AtoiOk(Slice(rest, 4, 6)) THEN Fail("atoi hour")
        ELSE IF ~AtoiOk(Slice(rest, 6, 8)) THEN Fail("atoi minute")
        ELSE IF month < minMonth \/ month > maxMonth \/ day < minDay \/ day > maxDay
                \/ hour < minHour \/ hour > maxHour
                \/ minuteValue < minuteMin \/ minuteValue > minuteMax
        THEN Fail("ErrInvalidDateTimeValues")
        ELSE Ok(Date(year, month, day, hour, minuteValue, second))

\* A ParsePosixTime that validates the seconds and then drops them.
ParsePosixTime_DropSeconds(timestampStr, nowYear) ==
    LET dotIndex == IndexOf(timestampStr, ".")
        secondsStr == Slice(timestampStr, dotIndex + 1, Len(timestampStr))
    IN  IF dotIndex = -1 THEN ParsePosixFields(timestampStr, 0, nowYear)
        ELSE IF Len(secondsStr) # posixSecondsLength THEN Fail("ErrInvalidSeconds")
        ELSE IF ~AtoiOk(secondsStr) THEN Fail("atoi seconds")
        ELSE IF Atoi(secondsStr) < minSecond \/ Atoi(secondsStr) > maxSecond
        THEN Fail("ErrInvalidSeconds")
        ELSE ParsePosixFields(Slice(timestampStr, 0, dotIndex), 0, nowYear)

ParsePosixTime(timestampStr, nowYear) ==
    LET dotIndex == IndexOf(timestampStr, ".")
        secondsStr == Slice(timestampStr, dotIndex + 1, Len(timestampStr))
    IN  IF dotIndex = -1 THEN ParsePosixFields(timestampStr, 0, nowYear)
        ELSE IF Len(secondsStr) # posixSecondsLength THEN Fail("ErrInvalidSeconds")
        ELSE IF ~AtoiOk(secondsStr) THEN Fail("atoi seconds")
        ELSE IF Atoi(secondsStr) < minSecond \/ Atoi(secondsStr) > maxSecond
        THEN Fail("ErrInvalidSeconds")
        ELSE ParsePosixFields(Slice(timestampStr, 0, dotIndex), Atoi(secondsStr), nowYear)

----------------------------------------------------------------------------
(* internal/timestamp: ParseDate.  A layout is the sequence of the chunks  *)
(* time.ParseInLocation splits it into; fractional seconds and the zone of *)
(* an RFC 3339 value are accepted or rejected but not kept in the result.  *)

LayoutRFC3339 == <<"2006", "-", "01", "-", "02", "T", "15", ":", "04", ":", "05", "Z07:00">>
LayoutDateTimeT == <<"2006", "-", "01", "-", "02", "T", "15", ":", "04", ":", "05">>
LayoutDateTimeSp == <<"2006", "-", "01", "-", "02", " ", "15", ":", "04", ":", "05">>
LayoutDateTimeMin == <<"2006", "-", "01", "-", "02", "T", "15", ":", "04">>
LayoutDateOnly == <<"2006", "-", "01", "-", "02">>
LayoutTimeSec == <<"15", ":", "04", ":", "05">>
LayoutTimeMin == <<"15", ":", "04">>

formats == <<LayoutRFC3339, LayoutDateTimeT, LayoutDateTimeSp, LayoutDateTimeMin,
             LayoutDateOnly, LayoutTimeSec, LayoutTimeMin>>

AllDigits(s) == \A i \in 1..Len(s) : IsDigit(s[i])

\* The defaults time.Parse starts from (month and day default to 1).
ParseStart == [ok |-> TRUE, year |-> 0, month |-> 1, day |-> 1,
               hour |-> 0, minute |-> 0, second |-> 0]

\* Number of characters the "Z07:00" chunk consumes, or 0 when it fails.
ZoneWidth(value) ==
    IF Len(value) >= 1 /\ value[1] = "Z" THEN 1
    ELSE IF Len(value) >= 6 /\ value[1] \in {"+", "-"} /\ value[4] = ":"
            /\ AllDigits(Slice(value, 1, 3)) /\ AllDigits(Slice(value, 4, 6))
            /\ DecVal(Slice(value, 1, 3)) <= 24 /\ DecVal(Slice(value, 4, 6)) <= 60
    THEN 6
    ELSE 0

\* Length of the longest prefix of s made of the character c (c = "" for
\* decimal digits).
RECURSIVE RunLength(_, _)
RunLength(s, c) ==
    IF Len(s) = 0 THEN 0
    ELSE IF (c = "" /\ IsDigit(Head(s))) \/ (c # "" /\ Head(s) = c)
    THEN 1 + RunLength(Tail(s), c)
    ELSE 0

\* Characters of a fractional second that time.Parse consumes after the
\* seconds when the layout has none: '.' or ',' and the digits after it.
FracWidth(value) ==
    IF Len(value) >= 2 /\ value[1] \in {".", ","} /\ IsDigit(value[2])
    THEN 1 + RunLength(Tail(value), "")
    ELSE 0

RECURSIVE MatchLayout(_, _, _)
MatchLayout(layout, value, acc) ==
    IF Len(layout) = 0
    THEN [acc EXCEPT !.ok = Len(value) = 0 /\ acc.day >= 1
                             /\ acc.day <= DaysIn(acc.year, acc.month)]
    ELSE
    LET tok == Head(layout)
        two == Len(value) >= 2 /\ AllDigits(Slice(value, 0, 2))
        v2 == DecVal(Slice(value, 0, 2))
        bad == [acc EXCEPT !.ok = FALSE]
    IN  CASE tok = "2006" ->
               IF Len(value) >= 4 /\ AllDigits(Slice(value, 0, 4))
               THEN MatchLayout(Tail(layout), Slice(value, 4, Len(value)),
                                [acc EXCEPT !.year = DecVal(Slice(value, 0, 4))])
               ELSE bad
          [] tok = "01" ->
               IF two /\ v2 >= 1 /\ v2 <= 12
               THEN MatchLayout(Tail(layout), Slice(value, 2, Len(value)),
                                [acc EXCEPT !.month = v2])
               ELSE bad
          [] tok = "02" ->
               IF two
               THEN MatchLayout(Tail(layout), Slice(value, 2, Len(value)),
                                [acc EXCEPT !.day = v2])
               ELSE bad
          [] tok = "15" ->
               IF two
               THEN (IF v2 < 24
                     THEN MatchLayout(Tail(layout), Slice(value, 2, Len(value)),
                                      [acc EXCEPT !.hour = v2])
                     ELSE bad)
               ELSE IF Len(value) >= 1 /\ IsDigit(value[1])
               THEN MatchLayout(Tail(layout), Slice(value, 1, Len(value)),
                                [acc EXCEPT !.hour = DigitVal(value[1])])
               ELSE bad
          [] tok = "04" ->
               IF two /\ v2 < 60
               THEN MatchLayout(Tail(layout), Slice(value, 2, Len(value)),
                                [acc EXCEPT !.minute = v2])
               ELSE bad
          [] tok = "05" ->
               IF two /\ v2 < 60
               THEN MatchLayout(Tail(layout),
                                Slice(value, 2 + FracWidth(Slice(value, 2, Len(value))),
                                      Len(value)),
                                [acc EXCEPT !.second = v2])
               ELSE bad
          [] tok = "Z07:00" ->
               IF ZoneWidth(value) > 0
               THEN MatchLayout(Tail(layout), Slice(value, ZoneWidth(value), Len(value)), acc)
               ELSE bad
          [] tok = " " ->
               IF Len(value) >= 1 /\ value[1] # " " THEN bad
               ELSE MatchLayout(Tail(layout),
                                Slice(value, RunLength(value, " "), Len(value)), acc)
          [] OTHER ->
               IF Len(value) >= 1 /\ value[1] = tok
               THEN MatchLayout(Tail(layout), Tail(value), acc)
               ELSE bad

ParseInLocation(format, dateStr) == MatchLayout(format, dateStr, ParseStart)

\* Index of the first format that parses dateStr, 0 when none does.
FirstFormat(dateStr) ==
    IF \E i \in 1..Len(formats) : ParseInLocation(formats[i], dateStr).ok
    THEN CHOOSE i \in 1..Len(formats) :
            /\ ParseInLocation(formats[i], dateStr).ok
            /\ \A j \in 1..(i - 1) : ~ParseInLocation(formats[j], dateStr).ok
    ELSE 0

\* A ParseDate that returns what the parser made of a time-only value.
ParseDate_KeepsParsedDate(dateStr, now) ==
    LET i == FirstFormat(dateStr)
        p == ParseInLocation(formats[i], dateStr)
    IN  IF i = 0 THEN Fail("ErrUnsupportedDateFormat")
        ELSE Ok(Date(p.year, p.month, p.day, p.hour, p.minute, p.second))

ParseDate(dateStr, now) ==
    LET i == FirstFormat(dateStr)
        p == ParseInLocation(formats[i], dateStr)
        isTimeOnly == formats[i] \in {LayoutTimeSec, LayoutTimeMin}
    IN  IF i = 0 THEN Fail("ErrUnsupportedDateFormat")
        ELSE IF isTimeOnly
        THEN Ok(Date(now.year, now.month, now.day, p.hour, p.minute, p.second))
        ELSE Ok(Date(p.year, p.month, p.day, p.hour, p.minute, p.second))

----------------------------------------------------------------------------
(* Input alphabets.                                                        *)

FileA == <<"a">>
FileB == <<"b">>
RefPath == <<"r">>
StampArg == <<"2", "5", "0", "7", "1", "3", "1", "4", "3", "0">>
StampLeap == <<"0", "4", "3", "1", "2", "3", "5", "9", ".", "6", "0">>
StampBad == <<"2", "5", "1", "3", "0", "1", "0", "0", "0", "0">>
StampYearOne == <<"0", "0", "0", "1", "0", "1", "0", "1", "0", "0", "0", "0">>
DateGood == <<"2", "0", "2", "5", "-", "0", "7", "-", "1", "3">>
DateClock == <<"1", "4", ":", "3", "0">>
DateBad == <<"2", "0", "2", "5", "/", "0", "7", "/", "1", "3">>
TimeAtime == <<"A", "T", "I", "M", "E">>
TimeModify == <<"m", "o", "d", "i", "f", "y">>
TimeBogus == <<"b", "o", "t", "h">>
TimeAccess == <<"a", "c", "c", "e", "s", "s">>
TimeUse == <<"U", "s", "e">>
TimeMtime == <<"M", "T", "I", "M", "E">>

Operands == {FileA, FileB, StampArg}
Paths == Operands \cup {RefPath}

\* Sequences over S of length at most n.
SeqUpTo(S, n) == UNION {[1..k -> S] : k \in 0..n}

OldAtime == Date(2020, 1, 1, 10, 0, 0)
OldMtime == Date(2020, 1, 1, 9, 0, 0)
RefAtime == Date(2021, 2, 2, 15, 0, 0)
RefMtime == Date(2021, 2, 2, 12, 0, 0)
ClockNow == Date(2025, 7, 14, 8, 15, 30)

----------------------------------------------------------------------------
(* internal/core, internal/errors, internal/platform, internal/filesystem. *)

ChAtime == 1
ChMtime == 2

HasBit(mask, bit) == (mask \div bit) % 2 = 1

BitOr(mask, bit) == IF HasBit(mask, bit) THEN mask ELSE mask + bit

BoolToInt(b) == IF b THEN 1 ELSE 0

\* fmt.Sprintf("%q", s) for the characters the model uses: the string between
\* double quotes, with a backslash before each double quote and backslash.
RECURSIVE Escape(_)
Escape(s) ==
    IF Len(s) = 0 THEN <<>>
    ELSE (IF Head(s) \in {"\"", "\\"} THEN <<"\\", Head(s)>> ELSE <<Head(s)>>)
         \o Escape(Tail(s))

Quote(s) == <<"\"">> \o Escape(s) \o <<"\"">>

\* One entry of the file system: whether the path exists, its times, whether
\* its FileInfo carries the platform stat structure, which operation the
\* path's permissions make fail ("none", "stat", "create" or "chtimes"), and
\* for a symbolic link the path it points to (the empty string otherwise).
Missing(fault) == [exists |-> FALSE, atime |-> ZeroTime, mtime |-> ZeroTime,
                   sys |-> TRUE, fault |-> fault, link |-> EmptyStr]
Existing(a, m, sys, fault) == [exists |-> TRUE, atime |-> a, mtime |-> m,
                               sys |-> sys, fault |-> fault, link |-> EmptyStr]
Symlink(a, m, target) == [exists |-> TRUE, atime |-> a, mtime |-> m,
                          sys |-> TRUE, fault |-> "none", link |-> target]

\* The path a call that follows symbolic links works on.
Resolve(f, path) == IF f[path].link # EmptyStr THEN f[path].link ELSE path

NoInfo == [atime |-> ZeroTime, mtime |-> ZeroTime, sys |-> FALSE]

\* filesystem.Default.Lstat (os.Lstat): the FileInfo of the path itself, or
\* the error.
Lstat(f, path) ==
    IF f[path].fault = "stat" THEN [err |-> "ErrPermission", info |-> NoInfo]
    ELSE IF ~f[path].exists THEN [err |-> "ErrNotExist", info |-> NoInfo]
    ELSE [err |-> "nil",
          info |-> [atime |-> f[path].atime, mtime |-> f[path].mtime, sys |-> f[path].sys]]

\* filesystem.Default.Stat (os.Stat): as Lstat, after following a link.
Stat(f, path) == Lstat(f, Resolve(f, path))

\* platform.GetAtime: the access time of the stat structure, else ModTime.
GetAtime(fileInfo) == IF fileInfo.sys THEN fileInfo.atime ELSE fileInfo.mtime

\* filesystem.Default.Create (os.Create: create or truncate).
Create(f, path, now) ==
    LET q == Resolve(f, path)
    IN  IF f[q].fault = "create" THEN [err |-> "ErrPermission", fs |-> f]
        ELSE [err |-> "nil",
              fs |-> [f EXCEPT ![q] =
                        IF f[q].exists THEN [@ EXCEPT !.mtime = now]
                        ELSE Existing(now, now, TRUE, f[q].fault)]]

\* filesystem.Default.Chtimes (os.Chtimes, follows symlinks).
Chtimes(f, path, atime, mtime) ==
    LET q == Resolve(f, path)
    IN  IF f[q].fault = "chtimes" THEN [err |-> "ErrPermission", fs |-> f]
        ELSE IF ~f[q].exists THEN [err |-> "ErrNotExist", fs |-> f]
        ELSE [err |-> "nil", fs |-> [f EXCEPT ![q].atime = atime, ![q].mtime = mtime]]

\* platform.SetTimesNoDeref: the fallback of platform.go on Windows, else
\* utimensat / lutimes on the path itself, a link not followed.
SetTimesNoDeref(f, os, path, atime, mtime) ==
    IF os = "windows" THEN [err |-> "ErrNoDerefUnsupported", fs |-> f]
    ELSE IF f[path].fault = "chtimes" THEN [err |-> "ErrPermission", fs |-> f]
    ELSE IF ~f[path].exists THEN [err |-> "ErrNotExist", fs |-> f]
    ELSE [err |-> "nil", fs |-> [f EXCEPT ![path].atime = atime, ![path].mtime = mtime]]

\* One logged file-system call: the operation, its arguments and its error.
Call(op, path, a, m, e) == [op |-> op, path |-> path, atime |-> a, mtime |-> m, err |-> e]

Line(tag, subject, detail) == [tag |-> tag, subject |-> subject, detail |-> detail]

WindowsWarning == Line("Warning: -h/--no-dereference is not supported on Windows", <<>>, "")
ObsoleteWarning(arg) == Line("warning: obsolete", arg, "use 'touch -t'")
ErrorLine(file, e) == Line("touch", Quote(file), e)

----------------------------------------------------------------------------
(* internal/cli: processFlags.                                             *)

ZeroOpts == [changeTimes |-> 0, noCreate |-> FALSE, noDeref |-> FALSE,
             refFilePath |-> EmptyStr, tStamp |-> EmptyStr, dateStr |-> EmptyStr]

ZeroRes == [accessTime |-> ZeroTime, modTime |-> ZeroTime, files |-> <<>>]

TimeSources(c) ==
    BoolToInt(c.reference # EmptyStr) + BoolToInt(c.date # EmptyStr)
        + BoolToInt(c.stamp # EmptyStr)

\* The mask chosen for a --time value: 0 when the value is not recognised.
TimeMask(timeStr) ==
    LET low == ToLower(timeStr)
    IN  IF low \in {<<"a", "c", "c", "e", "s", "s">>, <<"a", "t", "i", "m", "e">>,
                    <<"u", "s", "e">>}
        THEN ChAtime
        ELSE IF low \in {<<"m", "o", "d", "i", "f", "y">>, <<"m", "t", "i", "m", "e">>}
        THEN ChMtime
        ELSE 0

\* A processFlags where --time adds to -a/-m instead of replacing them.
FlagMask_TimeAdds(c) ==
    LET m0 == IF c.access THEN BitOr(0, ChAtime) ELSE 0
        m1 == IF c.modification THEN BitOr(m0, ChMtime) ELSE m0
        m2 == IF c.time # EmptyStr THEN BitOr(m1, TimeMask(c.time)) ELSE m1
    IN  IF m2 = 0 THEN BitOr(ChAtime, ChMtime) ELSE m2

FlagMask(c) ==
    LET m0 == IF c.access THEN BitOr(0, ChAtime) ELSE 0
        m1 == IF c.modification THEN BitOr(m0, ChMtime) ELSE m0
        m2 == IF c.time # EmptyStr THEN TimeMask(c.time) ELSE m1
    IN  IF m2 = 0 THEN BitOr(ChAtime, ChMtime) ELSE m2

\* A processFlags that rejects only three sources at once.
FlagsError_AllowTwo(c) ==
    IF c.time # EmptyStr /\ TimeMask(c.time) = 0 THEN "ErrInvalidTimeArg"
    ELSE IF TimeSources(c) > 2 THEN "ErrMultipleTimeSources"
    ELSE "nil"

\* The error processFlags returns for flags c ("nil" for none).
FlagsError(c) ==
    IF c.time # EmptyStr /\ TimeMask(c.time) = 0 THEN "ErrInvalidTimeArg"
    ELSE IF TimeSources(c) > 1 THEN "ErrMultipleTimeSources"
    ELSE "nil"

\* A processFlags that warns on Windows but leaves noDeref set.
ProcessFlags_KeepsNoDeref ==
    /\ pc = "processFlags"
    /\ LET warn == cmd.noDeref /\ goos = "windows"
           e == FlagsError(cmd)
       IN  /\ stderr' = IF warn THEN Append(stderr, WindowsWarning) ELSE stderr
           /\ ret' = e
           /\ opts' = IF e # "nil" THEN ZeroOpts
                      ELSE [changeTimes |-> FlagMask(cmd),
                            noCreate |-> cmd.noCreate,
                            noDeref |-> cmd.noDeref,
                            refFilePath |-> cmd.reference,
                            tStamp |-> cmd.stamp,
                            dateStr |-> cmd.date]
    /\ pc' = "flagsReturned"
    /\ UNCHANGED <<cmd, args, goos, posixly, clock, fs, mainCalls, res,
                   loopIdx, wg, hadError, tasks>>

ProcessFlags ==
    /\ pc = "processFlags"
    /\ LET warn == cmd.noDeref /\ goos = "windows"
           e == FlagsError(cmd)
       IN  /\ stderr' = IF warn THEN Append(stderr, WindowsWarning) ELSE stderr
           /\ ret' = e
           /\ opts' = IF e # "nil" THEN ZeroOpts
                      ELSE [changeTimes |-> FlagMask(cmd),
                            noCreate |-> cmd.noCreate,
                            noDeref |-> IF warn THEN FALSE ELSE cmd.noDeref,
                            refFilePath |-> cmd.reference,
                            tStamp |-> cmd.stamp,
                            dateStr |-> cmd.date]
    /\ pc' = "flagsReturned"
    /\ UNCHANGED <<cmd, args, goos, posixly, clock, fs, mainCalls, res,
                   loopIdx, wg, hadError, tasks>>

\* RunTouch, lines 37-48: return the error, or warn (again) and go on.
AfterFlags ==
    /\ pc = "flagsReturned"
    /\ pc' = IF ret # "nil" THEN "done" ELSE "calculateTimestamps"
    /\ stderr' = IF ret = "nil" /\ opts.noDeref /\ goos = "windows"
                 THEN Append(stderr, WindowsWarning) ELSE stderr
    /\ UNCHANGED <<cmd, args, goos, posixly, clock, fs, mainCalls, opts, res, ret,
                   loopIdx, wg, hadError, tasks>>

----------------------------------------------------------------------------
(* internal/timestamp: GetTimesFromRef; internal/cli: calculateTimestamps. *)

\* A GetTimesFromRef that follows links whatever noDeref says.
GetTimesFromRef_AlwaysFollows(f, refFilePath, noDeref) ==
    LET st == Stat(f, refFilePath)
    IN  [err |-> IF st.err # "nil" THEN "get file info" ELSE "nil",
         accessTime |-> IF st.err # "nil" THEN ZeroTime ELSE GetAtime(st.info),
         modTime |-> IF st.err # "nil" THEN ZeroTime ELSE st.info.mtime,
         call |-> Call(IF noDeref THEN "Lstat" ELSE "Stat", refFilePath, ZeroTime, ZeroTime,
                       st.err)]

GetTimesFromRef(f, refFilePath, noDeref) ==
    LET st == IF noDeref THEN Lstat(f, refFilePath) ELSE Stat(f, refFilePath)
    IN  [err |-> IF st.err # "nil" THEN "get file info" ELSE "nil",
         accessTime |-> IF st.err # "nil" THEN ZeroTime ELSE GetAtime(st.info),
         modTime |-> IF st.err # "nil" THEN ZeroTime ELSE st.info.mtime,
         call |-> Call(IF noDeref THEN "Lstat" ELSE "Stat", refFilePath, ZeroTime, ZeroTime,
                       st.err)]

CalcReturn(a, m, files, e, lines, calls) ==
    [accessTime |-> a, modTime |-> m, files |-> files, err |-> e,
     lines |-> lines, calls |-> calls]

\* An obsolete-usage fallback that warns whatever POSIXLY_CORRECT holds.
ObsoleteOrNow_AlwaysWarn(files, now, env) ==
    LET t == ParsePosixTime(files[1], now.year)
    IN  IF Len(files) >= 1 /\ t.ok
        THEN CalcReturn(t.time, t.time, Tail(files), "nil",
                        <<ObsoleteWarning(files[1])>>, <<>>)
        ELSE CalcReturn(now, now, files, "nil", <<>>, <<>>)

\* A default that leaves the zero time where the clock should be read.
ObsoleteOrNow_ZeroDefault(files, now, env) ==
    LET t == ParsePosixTime(files[1], now.year)
    IN  IF Len(files) >= 1 /\ t.ok
        THEN CalcReturn(t.time, t.time, Tail(files), "nil",
                        IF env = EmptyStr THEN <<ObsoleteWarning(files[1])>> ELSE <<>>,
                        <<>>)
        ELSE CalcReturn(ZeroTime, ZeroTime, files, "nil", <<>>, <<>>)

\* The obsolete-usage fallback and the default of calculateTimestamps
\* (lines 542-569), reached when no source flag set the times.
ObsoleteOrNow(files, now, env) ==
    LET t == ParsePosixTime(files[1], now.year)
    IN  IF Len(files) >= 1 /\ t.ok
        THEN CalcReturn(t.time, t.time, Tail(files), "nil",
                        IF env = EmptyStr THEN <<ObsoleteWarning(files[1])>> ELSE <<>>,
                        <<>>)
        ELSE CalcReturn(now, now, files, "nil", <<>>, <<>>)

\* A calculateTimestamps that drops a stamp-like first operand even when a
\* source flag has set the times.
calculateTimestamps_DropsFirst(f, noDeref, refFilePath, tStamp, dateStr, files, now, env) ==
    LET r == GetTimesFromRef(f, refFilePath, noDeref)
        t == ParsePosixTime(tStamp, now.year)
        d == ParseDate(dateStr, now)
        rest == IF Len(files) >= 1 /\ ParsePosixTime(files[1], now.year).ok
                THEN Tail(files) ELSE files
    IN  IF refFilePath # EmptyStr
        THEN (IF r.err # "nil"
              THEN CalcReturn(ZeroTime, ZeroTime, <<>>, "get reference times", <<>>, <<r.call>>)
              ELSE CalcReturn(r.accessTime, r.modTime, rest, "nil", <<>>, <<r.call>>))
        ELSE IF tStamp # EmptyStr
        THEN (IF ~t.ok
              THEN CalcReturn(ZeroTime, ZeroTime, <<>>, "parse POSIX stamp", <<>>, <<>>)
              ELSE CalcReturn(t.time, t.time, rest, "nil", <<>>, <<>>))
        ELSE IF dateStr # EmptyStr
        THEN (IF ~d.ok
              THEN CalcReturn(ZeroTime, ZeroTime, <<>>, "parse date", <<>>, <<>>)
              ELSE CalcReturn(d.time, d.time, rest, "nil", <<>>, <<>>))
        ELSE ObsoleteOrNow(files, now, env)

calculateTimestamps(f, noDeref, refFilePath, tStamp, dateStr, files, now, env) ==
    LET r == GetTimesFromRef(f, refFilePath, noDeref)
        t == ParsePosixTime(tStamp, now.year)
        d == ParseDate(dateStr, now)
    IN  IF refFilePath # EmptyStr
        THEN (IF r.err # "nil"
              THEN CalcReturn(ZeroTime, ZeroTime, <<>>, "get reference times", <<>>, <<r.call>>)
              ELSE CalcReturn(r.accessTime, r.modTime, files, "nil", <<>>, <<r.call>>))
        ELSE IF tStamp # EmptyStr
        THEN (IF ~t.ok
              THEN CalcReturn(ZeroTime, ZeroTime, <<>>, "parse POSIX stamp", <<>>, <<>>)
              ELSE CalcReturn(t.time, t.time, files, "nil", <<>>, <<>>))
        ELSE IF dateStr # EmptyStr
        THEN (IF ~d.ok
              THEN CalcReturn(ZeroTime, ZeroTime, <<>>, "parse date", <<>>, <<>>)
              ELSE CalcReturn(d.time, d.time, files, "nil", <<>>, <<>>))
        ELSE ObsoleteOrNow(files, now, env)

CalculateTimestamps ==
    /\ pc = "calculateTimestamps"
    /\ LET c == calculateTimestamps(fs, opts.noDeref, opts.refFilePath, opts.tStamp,
                                    opts.dateStr, args, clock, posixly)
       IN  /\ res' = [accessTime |-> c.accessTime, modTime |-> c.modTime,
                      files |-> c.files]
           /\ ret' = c.err
           /\ stderr' = stderr \o c.lines
           /\ mainCalls' = mainCalls \o c.calls
    /\ pc' = "timesReturned"
    /\ UNCHANGED <<cmd, args, goos, posixly, clock, fs, opts, loopIdx, wg,
                   hadError, tasks>>

\* A RunTouch that hands an empty list to applyToFiles.
AfterTimes_NoOperandCheck ==
    /\ pc = "timesReturned"
    /\ IF ret # "nil" THEN pc' = "done" /\ ret' = ret
       ELSE pc' = "applyToFiles" /\ ret' = ret
    /\ UNCHANGED <<cmd, args, goos, posixly, clock, fs, stderr, mainCalls, opts, res,
                   loopIdx, wg, hadError, tasks>>

\* A RunTouch that drops the error of calculateTimestamps.
AfterTimes_DropsError ==
    /\ pc = "timesReturned"
    /\ IF Len(res.files) = 0 THEN pc' = "done" /\ ret' = "ErrMissingOperands"
       ELSE pc' = "applyToFiles" /\ ret' = "nil"
    /\ UNCHANGED <<cmd, args, goos, posixly, clock, fs, stderr, mainCalls, opts, res,
                   loopIdx, wg, hadError, tasks>>

\* RunTouch, lines 57-68: return the error, or ErrMissingOperands, or go on
\* to applyToFiles.
AfterTimes ==
    /\ pc = "timesReturned"
    /\ IF ret # "nil" THEN pc' = "done" /\ ret' = ret
       ELSE IF Len(res.files) = 0 THEN pc' = "done" /\ ret' = "ErrMissingOperands"
       ELSE pc' = "applyToFiles" /\ ret' = ret
    /\ UNCHANGED <<cmd, args, goos, posixly, clock, fs, stderr, mainCalls, opts, res,
                   loopIdx, wg, hadError, tasks>>

----------------------------------------------------------------------------
(* internal/core: Touch, run by one goroutine of applyToFiles.  A task is  *)
(* [file, pc, info, err, calls]; each file-system call is one step.        *)

NewTask(file) == [file |-> file, pc |-> "stat", info |-> NoInfo, err |-> "nil",
                  calls |-> <<>>]

TaskIds == 1..Len(tasks)

\* A Touch that writes both resolved times whatever the mask.
TouchTimes_IgnoreMask(change, fileInfo, accessTimeParam, modTimeParam) ==
    [accessTime |-> accessTimeParam, modTime |-> modTimeParam]


\* A Touch that takes every Stat error for not-found.
AfterStat_AnyErrorIsMissing(statErr, noCreate) ==
    IF statErr = "nil" THEN [pc |-> "apply", err |-> "nil"]
    ELSE IF noCreate THEN [pc |-> "wgDone", err |-> "nil"]
    ELSE [pc |-> "create", err |-> "nil"]

\* A Touch that creates a missing file even under noCreate.
AfterStat_IgnoreNoCreate(statErr, noCreate) ==
    IF statErr = "nil" THEN [pc |-> "apply", err |-> "nil"]
    ELSE IF statErr = "ErrNotExist" THEN [pc |-> "create", err |-> "nil"]
    ELSE [pc |-> "report", err |-> "stat file"]

\* Touch, lines 95-107: the pair written to an existing file.
TouchTimes(change, fileInfo, accessTimeParam, modTimeParam) ==
    [accessTime |-> IF ~HasBit(change, ChAtime) THEN GetAtime(fileInfo)
                    ELSE accessTimeParam,
     modTime |-> IF ~HasBit(change, ChMtime) THEN fileInfo.mtime ELSE modTimeParam]

\* Touch, lines 72-93: where Touch goes after the initial Stat.
AfterStat(statErr, noCreate) ==
    IF statErr = "nil" THEN [pc |-> "apply", err |-> "nil"]
    ELSE IF statErr = "ErrNotExist"
    THEN (IF noCreate THEN [pc |-> "wgDone", err |-> "nil"]
          ELSE [pc |-> "create", err |-> "nil"])
    ELSE [pc |-> "report", err |-> "stat file"]

\* A path whose file system never answers: a call on it does not return.
Hung(f, path) == f[Resolve(f, path)].fault = "hang"

TouchStat(i) ==
    /\ tasks[i].pc = "stat"
    /\ ~Hung(fs, tasks[i].file)
    /\ LET st == Stat(fs, tasks[i].file)
           nx == AfterStat(st.err, opts.noCreate)
       IN  tasks' = [tasks EXCEPT ![i] =
                [@ EXCEPT !.pc = nx.pc, !.err = nx.err, !.info = st.info,
                          !.calls = Append(@, Call("Stat", tasks[i].file, ZeroTime, ZeroTime, st.err))]]
    /\ UNCHANGED <<pc, cmd, args, goos, posixly, clock, fs, stderr, mainCalls, opts,
                   res, ret, loopIdx, wg, hadError>>

TouchCreate(i) ==
    /\ tasks[i].pc = "create"
    /\ LET c == Create(fs, tasks[i].file, clock)
       IN  /\ fs' = c.fs
           /\ tasks' = [tasks EXCEPT ![i] =
                [@ EXCEPT !.pc = IF c.err = "nil" THEN "chtimesNew" ELSE "report",
                          !.err = IF c.err = "nil" THEN "nil" ELSE "create file",
                          !.calls = Append(@, Call("Create", tasks[i].file, ZeroTime, ZeroTime,
                                                   c.err))]]
    /\ UNCHANGED <<pc, cmd, args, goos, posixly, clock, stderr, mainCalls, opts,
                   res, ret, loopIdx, wg, hadError>>

\* A Touch that applies the mask to a file it has just created.
TouchChtimesNew_Masked(i) ==
    /\ tasks[i].pc = "chtimesNew"
    /\ LET t == TouchTimes(opts.changeTimes, tasks[i].info, res.accessTime, res.modTime)
           c == Chtimes(fs, tasks[i].file, t.accessTime, t.modTime)
       IN  /\ fs' = c.fs
           /\ tasks' = [tasks EXCEPT ![i] =
                [@ EXCEPT !.pc = IF c.err = "nil" THEN "wgDone" ELSE "report",
                          !.err = IF c.err = "nil" THEN "nil" ELSE "chtimes new file",
                          !.calls = Append(@, Call("Chtimes", tasks[i].file,
                                                   t.accessTime, t.modTime, c.err))]]
    /\ UNCHANGED <<pc, cmd, args, goos, posixly, clock, stderr, mainCalls, opts,
                   res, ret, loopIdx, wg, hadError>>

\* Touch, lines 85-89: the times of a file Touch has just created.
TouchChtimesNew(i) ==
    /\ tasks[i].pc = "chtimesNew"
    /\ LET c == Chtimes(fs, tasks[i].file, res.accessTime, res.modTime)
       IN  /\ fs' = c.fs
           /\ tasks' = [tasks EXCEPT ![i] =
                [@ EXCEPT !.pc = IF c.err = "nil" THEN "wgDone" ELSE "report",
                          !.err = IF c.err = "nil" THEN "nil" ELSE "chtimes new file",
                          !.calls = Append(@, Call("Chtimes", tasks[i].file,
                                                   res.accessTime, res.modTime, c.err))]]
    /\ UNCHANGED <<pc, cmd, args, goos, posixly, clock, stderr, mainCalls, opts,
                   res, ret, loopIdx, wg, hadError>>

\* A Touch that falls back to Chtimes when the no-follow write fails.
TouchApply_FallsBack(i) ==
    /\ tasks[i].pc = "apply"
    /\ LET t == TouchTimes(opts.changeTimes, tasks[i].info, res.accessTime, res.modTime)
           n == SetTimesNoDeref(fs, goos, tasks[i].file, t.accessTime, t.modTime)
           c == Chtimes(fs, tasks[i].file, t.accessTime, t.modTime)
           first == IF opts.noDeref
                    THEN <<Call("SetTimesNoDeref", tasks[i].file, t.accessTime, t.modTime,
                                n.err)>>
                    ELSE <<>>
           again == ~opts.noDeref \/ n.err # "nil"
           r == IF again THEN c ELSE n
       IN  /\ fs' = r.fs
           /\ tasks' = [tasks EXCEPT ![i] =
                [@ EXCEPT !.pc = IF r.err = "nil" THEN "wgDone" ELSE "report",
                          !.err = IF r.err = "nil" THEN "nil" ELSE "chtimes",
                          !.calls = @ \o first \o
                                    (IF again
                                     THEN <<Call("Chtimes", tasks[i].file,
                                                 t.accessTime, t.modTime, c.err)>>
                                     ELSE <<>>)]]
    /\ UNCHANGED <<pc, cmd, args, goos, posixly, clock, stderr, mainCalls, opts,
                   res, ret, loopIdx, wg, hadError>>

\* Touch, lines 95-122: the times of a file that existed.
TouchApply(i) ==
    /\ tasks[i].pc = "apply"
    /\ LET t == TouchTimes(opts.changeTimes, tasks[i].info, res.accessTime, res.modTime)
           c == IF opts.noDeref
                THEN SetTimesNoDeref(fs, goos, tasks[i].file, t.accessTime, t.modTime)
                ELSE Chtimes(fs, tasks[i].file, t.accessTime, t.modTime)
           op == IF opts.noDeref THEN "SetTimesNoDeref" ELSE "Chtimes"
           e == IF opts.noDeref THEN "set times no deref" ELSE "chtimes"
       IN  /\ fs' = c.fs
           /\ tasks' = [tasks EXCEPT ![i] =
                [@ EXCEPT !.pc = IF c.err = "nil" THEN "wgDone" ELSE "report",
                          !.err = IF c.err = "nil" THEN "nil" ELSE e,
                          !.calls = Append(@, Call(op, tasks[i].file,
                                                   t.accessTime, t.modTime, c.err))]]
    /\ UNCHANGED <<pc, cmd, args, goos, posixly, clock, stderr, mainCalls, opts,
                   res, ret, loopIdx, wg, hadError>>

----------------------------------------------------------------------------
(* internal/cli: applyToFiles.                                             *)

\* One iteration of the range loop: wg.Add(1) and the go statement.
Launch ==
    /\ pc = "applyToFiles"
    /\ loopIdx < Len(res.files)
    /\ wg' = wg + 1
    /\ tasks' = Append(tasks, NewTask(res.files[loopIdx + 1]))
    /\ loopIdx' = loopIdx + 1
    /\ UNCHANGED <<pc, cmd, args, goos, posixly, clock, fs, stderr, mainCalls, opts,
                   res, ret, hadError>>

\* A goroutine that records the failure without writing the line.
Report_Silent(i) ==
    /\ tasks[i].pc = "report"
    /\ tasks' = [tasks EXCEPT ![i].pc = "store"]
    /\ UNCHANGED <<pc, cmd, args, goos, posixly, clock, fs, stderr, mainCalls, opts,
                   res, ret, loopIdx, wg, hadError>>

\* The goroutine's fmt.Fprintf(os.Stderr, ...) after Touch returned an error.
Report(i) ==
    /\ tasks[i].pc = "report"
    /\ stderr' = Append(stderr, ErrorLine(tasks[i].file, tasks[i].err))
    /\ tasks' = [tasks EXCEPT ![i].pc = "store"]
    /\ UNCHANGED <<pc, cmd, args, goos, posixly, clock, fs, mainCalls, opts,
                   res, ret, loopIdx, wg, hadError>>

\* A goroutine that flips the flag instead of setting it.
StoreError_Flips(i) ==
    /\ tasks[i].pc = "store"
    /\ hadError' = ~hadError
    /\ tasks' = [tasks EXCEPT ![i].pc = "wgDone"]
    /\ UNCHANGED <<pc, cmd, args, goos, posixly, clock, fs, stderr, mainCalls, opts,
                   res, ret, loopIdx, wg>>

\* hadError.Store(true)
StoreError(i) ==
    /\ tasks[i].pc = "store"
    /\ hadError' = TRUE
    /\ tasks' = [tasks EXCEPT ![i].pc = "wgDone"]
    /\ UNCHANGED <<pc, cmd, args, goos, posixly, clock, fs, stderr, mainCalls, opts,
                   res, ret, loopIdx, wg>>

\* A goroutine that signals completion on the success path only.
WgDone_OnSuccessOnly(i) ==
    /\ tasks[i].pc = "wgDone"
    /\ wg' = IF tasks[i].err = "nil" THEN wg - 1 ELSE wg
    /\ tasks' = [tasks EXCEPT ![i].pc = "exited"]
    /\ UNCHANGED <<pc, cmd, args, goos, posixly, clock, fs, stderr, mainCalls, opts,
                   res, ret, loopIdx, hadError>>

\* The deferred wg.Done().
WgDone(i) ==
    /\ tasks[i].pc = "wgDone"
    /\ wg' = wg - 1
    /\ tasks' = [tasks EXCEPT ![i].pc = "exited"]
    /\ UNCHANGED <<pc, cmd, args, goos, posixly, clock, fs, stderr, mainCalls, opts,
                   res, ret, loopIdx, hadError>>

\* A Wait that returns at the end of the loop without the counter.
Wait_NoBarrier ==
    /\ pc = "applyToFiles"
    /\ loopIdx = Len(res.files)
    /\ pc' = "loadError"
    /\ UNCHANGED <<cmd, args, goos, posixly, clock, fs, stderr, mainCalls, opts,
                   res, ret, loopIdx, wg, hadError, tasks>>

\* wg.Wait() returns once the loop is over and the counter is zero.
Wait ==
    /\ pc = "applyToFiles"
    /\ loopIdx = Len(res.files)
    /\ wg = 0
    /\ pc' = "loadError"
    /\ UNCHANGED <<cmd, args, goos, posixly, clock, fs, stderr, mainCalls, opts,
                   res, ret, loopIdx, wg, hadError, tasks>>

\* An applyToFiles that returns nil whatever the tasks recorded.
LoadError_AlwaysNil ==
    /\ pc = "loadError"
    /\ ret' = "nil"
    /\ pc' = "done"
    /\ UNCHANGED <<cmd, args, goos, posixly, clock, fs, stderr, mainCalls, opts,
                   res, loopIdx, wg, hadError, tasks>>

\* hadError.Load() and the return of applyToFiles (and of RunTouch).
LoadError ==
    /\ pc = "loadError"
    /\ ret' = IF hadError THEN "ErrProcessingFiles" ELSE "nil"
    /\ pc' = "done"
    /\ UNCHANGED <<cmd, args, goos, posixly, clock, fs, stderr, mainCalls, opts,
                   res, loopIdx, wg, hadError, tasks>>

ApplyNext ==
    \/ Launch
    \/ \E i \in TaskIds : TouchStat(i)
    \/ \E i \in TaskIds : TouchCreate(i)
    \/ \E i \in TaskIds : TouchChtimesNew(i)
    \/ \E i \in TaskIds : TouchApply(i)
    \/ \E i \in TaskIds : Report(i)
    \/ \E i \in TaskIds : StoreError(i)
    \/ \E i \in TaskIds : WgDone(i)
    \/ Wait
    \/ LoadError

----------------------------------------------------------------------------
(* Initial states and specifications.                                      *)

NewAtime == Date(2025, 7, 13, 14, 0, 0)
NewMtime == Date(2025, 7, 13, 13, 0, 0)

GoosSet == {"linux", "windows"}
EnvSet == {EmptyStr, <<"1">>}
Masks == {ChAtime, ChMtime, BitOr(ChAtime, ChMtime)}

\* The states a target path can start in.
TargetStates == {Missing("none"), Missing("create"), Missing("chtimes"),
                 Existing(OldAtime, OldMtime, TRUE, "none"),
                 Existing(OldAtime, OldMtime, FALSE, "none"),
                 Existing(OldAtime, OldMtime, TRUE, "stat"),
                 Existing(OldAtime, OldMtime, TRUE, "chtimes")}

RefStates == {Missing("none"), Existing(RefAtime, RefMtime, TRUE, "none"),
              Existing(RefAtime, RefMtime, FALSE, "none")}

\* A reference path that is a symbolic link to the second operand.
RefLink == Symlink(RefAtime, RefMtime, FileB)

Idle ==
    /\ clock = ClockNow
    /\ stderr = <<>>
    /\ mainCalls = <<>>
    /\ ret = "nil"
    /\ loopIdx = 0
    /\ wg = 0
    /\ hadError = FALSE
    /\ tasks = <<>>

DefaultCmd == [access |-> FALSE, modification |-> FALSE, time |-> EmptyStr,
               noCreate |-> FALSE, noDeref |-> FALSE, reference |-> EmptyStr,
               stamp |-> EmptyStr, date |-> EmptyStr]

\* The operand lists RunTouch is run on.
RunArgs == {<<>>, <<FileA>>, <<StampArg>>, <<StampArg, FileA>>, <<FileA, StampArg>>,
            <<FileA, FileA>>}

\* RunTouch as the command runs it.
Init ==
    /\ Idle
    /\ pc = "processFlags"
    /\ cmd \in [access : BOOLEAN, modification : {FALSE},
                time : {EmptyStr, TimeBogus},
                noCreate : BOOLEAN, noDeref : BOOLEAN,
                reference : {EmptyStr, RefPath},
                stamp : {EmptyStr, StampArg, StampBad, StampYearOne},
                date : {EmptyStr, DateBad}]
    /\ args \in RunArgs
    /\ goos \in GoosSet
    /\ posixly = EmptyStr
    /\ \E ta \in {Missing("none"), Existing(OldAtime, OldMtime, TRUE, "none"),
                  Existing(OldAtime, OldMtime, TRUE, "chtimes")},
          tr \in {Missing("none"), Existing(RefAtime, RefMtime, TRUE, "none")} :
          fs = [p \in Paths |-> IF p = FileA THEN ta
                                ELSE IF p = RefPath THEN tr
                                ELSE Missing("none")]
    /\ opts = ZeroOpts
    /\ res = ZeroRes

Next ==
    \/ ProcessFlags
    \/ AfterFlags
    \/ CalculateTimestamps
    \/ AfterTimes
    \/ ApplyNext

Spec == Init /\ [][Next]_vars

\* processFlags alone, as Test_processFlags calls it.
InitFlags ==
    /\ Idle
    /\ pc = "processFlags"
    /\ cmd \in [access : BOOLEAN, modification : BOOLEAN,
                time : {EmptyStr, TimeAtime, TimeModify, TimeBogus, TimeAccess,
                        TimeUse, TimeMtime},
                noCreate : BOOLEAN, noDeref : BOOLEAN,
                reference : {EmptyStr, RefPath}, stamp : {EmptyStr, StampArg, StampBad},
                date : {EmptyStr, DateGood, DateBad}]
    /\ args = <<>>
    /\ goos \in GoosSet
    /\ posixly = EmptyStr
    /\ fs = [p \in Paths |-> Missing("none")]
    /\ opts = ZeroOpts
    /\ res = ZeroRes

SpecFlags == InitFlags /\ [][ProcessFlags]_vars

\* calculateTimestamps alone, as Test_calculateTimestamps calls it.
InitCalc ==
    /\ Idle
    /\ pc = "calculateTimestamps"
    /\ cmd = DefaultCmd
    /\ args \in SeqUpTo(Operands \cup {StampLeap, StampBad}, MaxArgs)
    /\ goos = "linux"
    /\ posixly \in EnvSet
    /\ \E tr \in RefStates \cup {RefLink},
          tb \in {Missing("none"), Existing(OldAtime, OldMtime, TRUE, "none")} :
          /\ tr.link = EmptyStr => ~tb.exists
          /\ fs = [p \in Paths |-> IF p = RefPath THEN tr
                                    ELSE IF p = FileB THEN tb ELSE Missing("none")]
    /\ opts \in [changeTimes : {BitOr(ChAtime, ChMtime)}, noCreate : {FALSE},
                 noDeref : BOOLEAN, refFilePath : {EmptyStr, RefPath},
                 tStamp : {EmptyStr, StampArg, StampBad},
                 dateStr : {EmptyStr, DateGood, DateClock, DateBad}]
    /\ res = ZeroRes

SpecCalc == InitCalc /\ [][CalculateTimestamps]_vars

\* applyToFiles alone, as Test_applyToFiles calls it.
InitApply ==
    /\ Idle
    /\ pc = "applyToFiles"
    /\ cmd = DefaultCmd
    /\ args = <<>>
    /\ goos \in GoosSet
    /\ posixly = EmptyStr
    /\ \E ta \in TargetStates,
          tb \in {Missing("none"), Existing(OldAtime, OldMtime, TRUE, "none")} :
          fs = [p \in Paths |-> IF p = FileA THEN ta
                                ELSE IF p = FileB THEN tb
                                ELSE Missing("none")]
    /\ opts \in [changeTimes : Masks, noCreate : BOOLEAN, noDeref : BOOLEAN,
                 refFilePath : {EmptyStr}, tStamp : {EmptyStr}, dateStr : {EmptyStr}]
    /\ res \in [accessTime : {NewAtime}, modTime : {NewMtime},
                files : SeqUpTo({FileA, FileB}, MaxArgs)]

SpecApply == InitApply /\ [][ApplyNext]_vars

\* applyToFiles when the first operand is a symbolic link to the second,
\* which exists or not; the link has times of its own.
LinkAtime == Date(2022, 3, 3, 11, 0, 0)
LinkMtime == Date(2022, 3, 3, 10, 0, 0)

InitLink ==
    /\ Idle
    /\ pc = "applyToFiles"
    /\ cmd = DefaultCmd
    /\ args = <<>>
    /\ goos \in GoosSet
    /\ posixly = EmptyStr
    /\ \E tb \in {Missing("none"), Existing(OldAtime, OldMtime, TRUE, "none"),
                  Existing(OldAtime, OldMtime, TRUE, "chtimes")} :
          fs = [p \in Paths |-> IF p = FileA THEN Symlink(LinkAtime, LinkMtime, FileB)
                                ELSE IF p = FileB THEN tb
                                ELSE Missing("none")]
    /\ opts \in [changeTimes : Masks, noCreate : BOOLEAN, noDeref : BOOLEAN,
                 refFilePath : {EmptyStr}, tStamp : {EmptyStr}, dateStr : {EmptyStr}]
    /\ res \in [accessTime : {NewAtime}, modTime : {NewMtime},
                files : SeqUpTo({FileA, FileB}, MaxArgs)]

SpecLink == InitLink /\ [][ApplyNext]_vars

\* platform.SetTimesNoDeref on Darwin (touch_darwin.go).  An instant is held
\* as time.Time holds it: whole seconds since the Unix epoch, rounded down,
\* and the nanoseconds past that second.
MicrosPerSecond == 1000000
NanosPerMicro == 1000

Instants ==
    [sec : -2..2,
     nsec : {0, 1, 999, 1000, 500000000, 999999000, 999999999}]

\* Time.Unix and Time.UnixMicro.
Unix(t) == t.sec
UnixMicro(t) == t.sec * MicrosPerSecond + t.nsec \div NanosPerMicro

\* Go's % : the remainder has the sign of the dividend.
GoRem(a, b) == IF a >= 0 THEN a % b ELSE 0 - ((0 - a) % b)

\* One unix.Timeval as lines 43 and 44 build it.  The remainder lies
\* strictly between -1000000 and 1000000, which int32 holds exactly.
Timeval(t) == [Sec |-> Unix(t), Usec |-> GoRem(UnixMicro(t), MicrosPerSecond)]

DarwinSetTimesNoDeref ==
    /\ pc = "SetTimesNoDeref"
    /\ mainCalls' = Append(mainCalls,
                           [op |-> "Lutimes", path |-> res.files[1],
                            atime |-> Timeval(res.accessTime),
                            mtime |-> Timeval(res.modTime), err |-> "nil"])
    /\ pc' = "lutimesCalled"
    /\ UNCHANGED <<cmd, args, goos, posixly, clock, fs, stderr, opts, res, ret,
                   loopIdx, wg, hadError, tasks>>

InitDarwin ==
    /\ Idle
    /\ pc = "SetTimesNoDeref"
    /\ cmd = DefaultCmd
    /\ args = <<>>
    /\ goos = "darwin"
    /\ posixly = EmptyStr
    /\ fs = [p \in Paths |-> IF p = FileA THEN Symlink(LinkAtime, LinkMtime, FileB)
                            ELSE Missing("none")]
    /\ opts = [ZeroOpts EXCEPT !.noDeref = TRUE, !.changeTimes = BitOr(ChAtime, ChMtime)]
    /\ res \in [accessTime : Instants, modTime : Instants, files : {<<FileA>>}]

SpecDarwin == InitDarwin /\ [][DarwinSetTimesNoDeref]_vars

\* applyToFiles under the Go scheduler: the dispatcher and every goroutine
\* that can take a step eventually takes it.  A path may be on a file system
\* that never answers.
TaskNext(i) ==
    /\ i \in TaskIds
    /\ \/ TouchStat(i)
       \/ TouchCreate(i)
       \/ TouchChtimesNew(i)
       \/ TouchApply(i)
       \/ Report(i)
       \/ StoreError(i)
       \/ WgDone(i)

InitFair ==
    /\ Idle
    /\ pc = "applyToFiles"
    /\ cmd = DefaultCmd
    /\ args = <<>>
    /\ goos = "linux"
    /\ posixly = EmptyStr
    /\ \E ta \in {Missing("none"), Existing(OldAtime, OldMtime, TRUE, "none"),
                  Existing(OldAtime, OldMtime, TRUE, "chtimes"),
                  Existing(OldAtime, OldMtime, TRUE, "hang")} :
          fs = [p \in Paths |-> IF p = FileA THEN ta ELSE Missing("none")]
    /\ opts \in [changeTimes : {BitOr(ChAtime, ChMtime)}, noCreate : BOOLEAN,
                 noDeref : {FALSE}, refFilePath : {EmptyStr}, tStamp : {EmptyStr},
                 dateStr : {EmptyStr}]
    /\ res \in [accessTime : {NewAtime}, modTime : {NewMtime},
                files : SeqUpTo({FileA, FileB}, MaxArgs)]

SpecFair ==
    /\ InitFair
    /\ [][ApplyNext]_vars
    /\ WF_vars(Launch)
    /\ WF_vars(Wait)
    /\ WF_vars(LoadError)
    /\ \A i \in 1..MaxArgs : WF_vars(TaskNext(i))

\* ParsePosixTime alone, as TestParsePosixTime calls it: the stamp is args[1],
\* put together from a year part, four two-character fields and a suffix.
\* Year parts: none, YY, CCYY, one of odd length, a signed one, a letter.
StampYears ==
   {<<>>,
    <<"2", "5">>,
    <<"6", "8">>,
    <<"6", "9">>,
    <<"2", "0", "2", "4">>,
    <<"1", "9", "6", "9">>,
    <<"5">>,
    <<"+", "7">>,
    <<"2", "x">>}

\* Month fields.
StampMonths ==
   {<<"0", "0">>,
    <<"0", "2">>,
    <<"0", "4">>,
    <<"1", "2">>,
    <<"1", "3">>,
    <<"+", "7">>}

\* Day fields.
StampDays ==
   {<<"0", "0">>,
    <<"0", "1">>,
    <<"2", "9">>,
    <<"3", "1">>,
    <<"3", "2">>}

\* Hour fields.
StampHours ==
   {<<"0", "0">>,
    <<"2", "3">>,
    <<"2", "4">>}

\* Minute fields.
StampMinutes ==
   {<<"0", "0">>,
    <<"5", "9">>,
    <<"6", "0">>}

\* Suffixes: none, .SS, and malformed ones.
StampSuffixes ==
   {<<>>,
    <<".", "0", "0">>,
    <<".", "5", "9">>,
    <<".", "6", "0">>,
    <<".", "6", "1">>,
    <<".", "6", "2">>,
    <<".", "5">>,
    <<".", "+", "5">>,
    <<".", ".", "5">>}

Stamps ==
    {y \o mo \o d \o h \o mi \o sfx :
        y \in StampYears, mo \in StampMonths, d \in StampDays,
        h \in StampHours, mi \in StampMinutes, sfx \in StampSuffixes}

\* A clock in a leap year, besides ClockNow.
ClockLeap == Date(2024, 2, 10, 8, 0, 0)

\* t, err := timestamp.ParsePosixTime(args[0])
ParseStamp ==
    /\ pc = "ParsePosixTime"
    /\ LET t == ParsePosixTime(args[1], clock.year)
       IN  /\ res' = [accessTime |-> t.time, modTime |-> t.time, files |-> <<>>]
           /\ ret' = t.err
    /\ pc' = "posixReturned"
    /\ UNCHANGED <<cmd, args, goos, posixly, clock, fs, stderr, mainCalls, opts,
                   loopIdx, wg, hadError, tasks>>

InitPosix ==
    /\ stderr = <<>>
    /\ mainCalls = <<>>
    /\ ret = "nil"
    /\ loopIdx = 0
    /\ wg = 0
    /\ hadError = FALSE
    /\ tasks = <<>>
    /\ pc = "ParsePosixTime"
    /\ cmd = DefaultCmd
    /\ \E st \in Stamps : args = <<st>>
    /\ clock \in {ClockNow, ClockLeap}
    /\ goos = "linux"
    /\ posixly = EmptyStr
    /\ fs = [p \in Paths |-> Missing("none")]
    /\ opts = ZeroOpts
    /\ res = ZeroRes

SpecPosix == InitPosix /\ [][ParseStamp]_vars

\* ParseDate alone, as TestParseDate calls it: the date string is args[1],
\* put together from a date, a separator, a clock time and a zone.
\* Date parts.
DateDays ==
   {<<>>,
    <<"2", "0", "2", "5", "-", "0", "7", "-", "1", "3">>,
    <<"2", "0", "2", "4", "-", "0", "2", "-", "2", "9">>,
    <<"2", "0", "2", "5", "-", "0", "2", "-", "2", "9">>,
    <<"2", "0", "2", "5", "-", "1", "3", "-", "1", "3">>,
    <<"2", "0", "2", "5", "/", "0", "7", "/", "1", "3">>,
    <<"2", "0", "2", "5", "-", "0", "7", "-", "3", "1">>}

\* Separators between date and time.
DateSeps ==
   {<<>>,
    <<"T">>,
    <<" ">>,
    <<" ", " ">>}

\* Clock-time parts.
DateTimes ==
   {<<>>,
    <<"1", "4", ":", "3", "0">>,
    <<"1", "4", ":", "3", "0", ":", "0", "0">>,
    <<"2", "3", ":", "5", "9", ":", "5", "9">>,
    <<"2", "4", ":", "0", "0">>,
    <<"1", ":", "3", "0">>,
    <<"1", "4", ":", "3", "0", ":", "6", "0">>,
    <<"1", "4", ":", "3", "0", ":", "0", "7", ".", "5">>}

\* Zone parts.
DateZones ==
   {<<>>,
    <<"Z">>,
    <<"+", "0", "1", ":", "0", "0">>,
    <<"+", "2", "5", ":", "0", "0">>}

DateStrings ==
    {d \o sp \o t \o z :
        d \in DateDays, sp \in DateSeps, t \in DateTimes, z \in DateZones}

\* t, err := timestamp.ParseDate(args[0])
ParseDateStr ==
    /\ pc = "ParseDate"
    /\ LET t == ParseDate(args[1], clock)
       IN  /\ res' = [accessTime |-> t.time, modTime |-> t.time, files |-> <<>>]
           /\ ret' = t.err
    /\ pc' = "dateReturned"
    /\ UNCHANGED <<cmd, args, goos, posixly, clock, fs, stderr, mainCalls, opts,
                   loopIdx, wg, hadError, tasks>>

InitDate ==
    /\ stderr = <<>>
    /\ mainCalls = <<>>
    /\ ret = "nil"
    /\ loopIdx = 0
    /\ wg = 0
    /\ hadError = FALSE
    /\ tasks = <<>>
    /\ clock \in {ClockNow, ClockLeap}
    /\ pc = "ParseDate"
    /\ cmd = DefaultCmd
    /\ \E ds \in DateStrings : args = <<ds>>
    /\ goos = "linux"
    /\ posixly = EmptyStr
    /\ fs = [p \in Paths |-> Missing("none")]
    /\ opts = ZeroOpts
    /\ res = ZeroRes

SpecDate == InitDate /\ [][ParseDateStr]_vars

----------------------------------------------------------------------------
(* Properties.                                                             *)

\* How many of reference, stamp and date were supplied.
SourcesGiven(c) ==
    Cardinality({k \in {"reference", "stamp", "date"} : c[k] # EmptyStr})

\* The --time values the program documents, compared without case.
RecognisedTime(t) ==
    ToLower(t) \in {<<"a", "c", "c", "e", "s", "s">>, <<"a", "t", "i", "m", "e">>,
                    <<"u", "s", "e">>, <<"m", "o", "d", "i", "f", "y">>,
                    <<"m", "t", "i", "m", "e">>}

\* Nothing was resolved and no file-system call was made.
NothingTouched == /\ res = ZeroRes
                  /\ mainCalls = <<>>
                  /\ tasks = <<>>

\* C1 (as stated): with two or three of reference, stamp and date supplied,
\* RunTouch always ends with ErrMultipleTimeSources, whatever the other
\* flags are.
C1_AlwaysMultipleSources ==
    (pc = "done" /\ SourcesGiven(cmd) >= 2) => ret = "ErrMultipleTimeSources"

\* C1 (amended): with two or three of reference, stamp and date supplied,
\* processFlags fails with ErrMultipleTimeSources, or with ErrInvalidTimeArg
\* when the --time value is not a recognised one; either way RunTouch returns
\* that error, no timestamp is resolved, no file is stat'ed, created or
\* modified, and no source is picked.
C1_MultipleSourcesRejected ==
    [][SourcesGiven(cmd) >= 2 =>
          /\ fs' = fs
          /\ NothingTouched'
          /\ opts' = ZeroOpts
          /\ pc' \in {"processFlags", "flagsReturned", "done"}
          /\ pc' # "processFlags" =>
                ret' = IF cmd.time # EmptyStr /\ ~RecognisedTime(cmd.time)
                       THEN "ErrInvalidTimeArg"
                       ELSE "ErrMultipleTimeSources"]_vars

\* C1 witness: RunTouch has returned ErrMultipleTimeSources for two sources.
C1_Witness ==
    /\ pc = "done"
    /\ SourcesGiven(cmd) = 2
    /\ ret = "ErrMultipleTimeSources"
    /\ NothingTouched

\* Task i is past Touch: Touch has returned to the goroutine.
Returned(i) == tasks[i].pc \in {"report", "store", "wgDone", "exited"}

\* Task i's Stat has run and reported e.
StatGave(i, e) == Len(tasks[i].calls) >= 1 /\ tasks[i].calls[1].err = e

\* How many entries of the list name path p.
Occurrences(p) == Cardinality({k \in 1..Len(res.files) : res.files[k] = p})

\* The operations task i has called, in order.
OpsOf(i) == [k \in 1..Len(tasks[i].calls) |-> tasks[i].calls[k].op]

\* C2 (as stated): when Stat reports not-found and noCreate is false, Touch
\* creates the file and returns success unless Create failed.
C2_CreatedAlwaysSucceeds ==
    \A i \in TaskIds :
        (/\ Returned(i)
         /\ StatGave(i, "ErrNotExist")
         /\ ~opts.noCreate
         /\ Len(tasks[i].calls) >= 2
         /\ tasks[i].calls[2].err = "nil") => tasks[i].err = "nil"

\* C2 (amended): when Stat reports not-found and noCreate is false, Touch
\* calls Create exactly once; if Create fails it returns an error without
\* writing any time; otherwise it writes exactly (accessTimeParam,
\* modTimeParam) whatever the mask is, and returns success when that write
\* succeeds and an error when it fails.
C2_CreateThenWriteParams ==
    \A i \in TaskIds :
        (Returned(i) /\ StatGave(i, "ErrNotExist") /\ ~opts.noCreate) =>
            /\ Len(tasks[i].calls) >= 2
            /\ tasks[i].calls[2].op = "Create"
            /\ IF tasks[i].calls[2].err # "nil"
               THEN /\ OpsOf(i) = <<"Stat", "Create">>
                    /\ tasks[i].err = "create file"
               ELSE /\ OpsOf(i) = <<"Stat", "Create", "Chtimes">>
                    /\ tasks[i].calls[3].path = tasks[i].file
                    /\ tasks[i].calls[3].atime = res.accessTime
                    /\ tasks[i].calls[3].mtime = res.modTime
                    /\ tasks[i].err = IF tasks[i].calls[3].err = "nil" THEN "nil"
                                      ELSE "chtimes new file"
                    /\ (tasks[i].err = "nil" /\ Occurrences(tasks[i].file) = 1) =>
                          /\ fs[tasks[i].file].exists
                          /\ fs[tasks[i].file].atime = res.accessTime
                          /\ fs[tasks[i].file].mtime = res.modTime

\* C2 witness: a file created under an access-only mask got both times.
C2_Witness ==
    \E i \in TaskIds :
        /\ tasks[i].pc = "exited"
        /\ opts.changeTimes = ChAtime
        /\ OpsOf(i) = <<"Stat", "Create", "Chtimes">>
        /\ tasks[i].err = "nil"
        /\ fs[tasks[i].file].mtime = NewMtime
        /\ fs[tasks[i].file].atime = NewAtime

\* C3: when Stat reports not-found and noCreate is true, Touch returns
\* success having called neither Create nor a time write, and the step
\* leaves the file system as it was.
C3_NoCreateLeavesMissing ==
    [][\A i \in DOMAIN tasks :
          (/\ tasks'[i] # tasks[i]
           /\ opts.noCreate
           /\ Len(tasks'[i].calls) >= 1
           /\ tasks'[i].calls[1].err = "ErrNotExist") =>
              /\ fs' = fs
              /\ ~fs'[tasks[i].file].exists
              /\ tasks'[i].err = "nil"
              /\ Len(tasks'[i].calls) = 1
              /\ tasks'[i].calls[1].op = "Stat"
              /\ tasks'[i].pc \in {"wgDone", "exited"}]_vars

\* C3 witness: a task has returned from a missing path under noCreate.
C3_Witness ==
    \E i \in TaskIds :
        /\ opts.noCreate
        /\ tasks[i].pc = "exited"
        /\ StatGave(i, "ErrNotExist")
        /\ tasks[i].err = "nil"
        /\ ~fs[tasks[i].file].exists
        /\ pc = "done"
        /\ ret = "nil"

\* The pair C4 expects Touch to write for task i.
ExpectedAtime(i) == IF opts.changeTimes \in {ChAtime, ChAtime + ChMtime}
                    THEN res.accessTime ELSE GetAtime(tasks[i].info)
ExpectedMtime(i) == IF opts.changeTimes \in {ChMtime, ChAtime + ChMtime}
                    THEN res.modTime ELSE tasks[i].info.mtime

\* C4: for a path that exists, the access time Touch writes is the resolved
\* one when ChAtime is in the mask and GetAtime of the Stat result otherwise,
\* and the modification time is the resolved one when ChMtime is in the mask
\* and the Stat result's ModTime otherwise.  Stated on the write Touch makes
\* and, for a path named once whose FileInfo carries the stat structure, on
\* the file afterwards: an access-only update leaves the modification time
\* as it was and a modification-only update leaves the access time as it was.
C4_PreservesUnselected ==
    [][\A i \in DOMAIN tasks :
          (/\ tasks[i].pc = "apply"
           /\ tasks'[i].pc # "apply") =>
              LET w == tasks'[i].calls[2]
                  p == tasks[i].file
              IN  /\ Len(tasks'[i].calls) = 2
                  /\ tasks[i].calls[1].err = "nil"
                  /\ w.op = IF opts.noDeref THEN "SetTimesNoDeref" ELSE "Chtimes"
                  /\ w.path = p
                  /\ w.atime = ExpectedAtime(i)
                  /\ w.mtime = ExpectedMtime(i)
                  /\ (w.err = "nil" /\ Occurrences(p) = 1) =>
                        /\ fs'[p].atime = w.atime
                        /\ fs'[p].mtime = w.mtime
                        /\ opts.changeTimes = ChAtime =>
                              fs'[p].mtime = fs[p].mtime /\ fs'[p].atime = res.accessTime
                        /\ (opts.changeTimes = ChMtime /\ fs[p].sys) =>
                              fs'[p].atime = fs[p].atime /\ fs'[p].mtime = res.modTime]_vars

\* C4 witness: a modification-only update kept the old access time.
C4_Witness ==
    \E i \in TaskIds :
        /\ opts.changeTimes = ChMtime
        /\ tasks[i].pc = "exited"
        /\ tasks[i].err = "nil"
        /\ OpsOf(i) = <<"Stat", "Chtimes">>
        /\ Occurrences(tasks[i].file) = 1
        /\ fs[tasks[i].file].atime = OldAtime
        /\ fs[tasks[i].file].mtime = NewMtime

\* The tasks whose Touch returned an error.
Failed == {i \in TaskIds : tasks[i].err # "nil"}

\* C5: applyToFiles returns ErrProcessingFiles exactly when at least one
\* Touch failed and nil otherwise, the empty list included; a file whose
\* Touch succeeded keeps the times it was given whatever the other files did.
C5_ErrorIffSomeFailed ==
    pc = "done" =>
        /\ ret \in {"nil", "ErrProcessingFiles"}
        /\ (ret = "ErrProcessingFiles") <=> (Failed # {})
        /\ Len(res.files) = 0 => ret = "nil"
        /\ \A i \in TaskIds :
              (/\ tasks[i].err = "nil"
               /\ Occurrences(tasks[i].file) = 1
               /\ Len(tasks[i].calls) >= 2) =>
                  LET w == tasks[i].calls[Len(tasks[i].calls)]
                  IN  /\ w.op # "Create"
                      /\ w.err = "nil"
                      /\ fs[tasks[i].file].exists
                      /\ fs[tasks[i].file].atime = w.atime
                      /\ fs[tasks[i].file].mtime = w.mtime

\* C5 witness: one file failed, the other was updated and stays updated.
C5_Witness ==
    /\ pc = "done"
    /\ ret = "ErrProcessingFiles"
    /\ \E i, j \in TaskIds :
          /\ tasks[i].err = "chtimes"
          /\ tasks[j].err = "nil"
          /\ tasks[j].file # tasks[i].file
          /\ fs[tasks[j].file].atime = NewAtime
          /\ fs[tasks[j].file].mtime = NewMtime

\* The line C6 expects for task i (the paths here need no escaping).
ExpectedLine(i) == [tag |-> "touch",
                    subject |-> <<"\"">> \o tasks[i].file \o <<"\"">>,
                    detail |-> tasks[i].err]

\* C6: once every task is over, stderr holds exactly one line
\* 'touch: <quoted path>: <error>' per failed file and none for the files
\* that succeeded; the lines are there before applyToFiles returns, and
\* returning adds none.
C6_OneLinePerFailure ==
    pc \in {"loadError", "done"} =>
        /\ Len(stderr) = Cardinality(Failed)
        /\ \A i \in Failed :
              Cardinality({k \in 1..Len(stderr) : stderr[k] = ExpectedLine(i)})
                 = Cardinality({j \in Failed : ExpectedLine(j) = ExpectedLine(i)})
        /\ \A k \in 1..Len(stderr) : \E i \in Failed : stderr[k] = ExpectedLine(i)

\* C6 witness: two files, one failure, one line, before the return.
C6_Witness ==
    /\ pc = "loadError"
    /\ Len(tasks) = 2
    /\ Cardinality(Failed) = 1
    /\ stderr = <<[tag |-> "touch", subject |-> <<"\"", "a", "\"">>,
                   detail |-> "create file"]>>

\* C7: when applyToFiles returns, Touch has been invoked exactly once for
\* each entry of the list, in a task of its own, and every invocation is
\* over: a failure neither stops, skips nor repeats another file.
C7_EveryFileOnce ==
    pc \in {"loadError", "done"} =>
        /\ Len(tasks) = Len(res.files)
        /\ \A i \in TaskIds :
              /\ tasks[i].file = res.files[i]
              /\ tasks[i].pc = "exited"
              /\ Cardinality({k \in 1..Len(tasks[i].calls) :
                                 tasks[i].calls[k].op = "Stat"}) = 1
              /\ tasks[i].calls[1].op = "Stat"
              /\ tasks[i].calls[1].path = res.files[i]
        /\ wg = 0

\* C7 witness: the first file failed and the second was still processed.
C7_Witness ==
    /\ pc = "done"
    /\ Len(tasks) = 2
    /\ tasks[1].err = "stat file"
    /\ tasks[2].err = "nil"
    /\ tasks[2].pc = "exited"
    /\ OpsOf(2) = <<"Stat", "Chtimes">>

\* calculateTimestamps was called with reference, stamp and date all empty.
NoSource == /\ opts.refFilePath = EmptyStr
            /\ opts.tStamp = EmptyStr
            /\ opts.dateStr = EmptyStr

\* The first positional argument parses as a POSIX stamp.
FirstIsStamp == Len(args) >= 1 /\ ParsePosixTime(args[1], clock.year).ok

\* C8: with no source and a first argument that parses as a POSIX stamp,
\* calculateTimestamps returns access = modification = the parsed time and
\* the remaining arguments in order, with exactly one advisory line on stderr
\* when POSIXLY_CORRECT is empty and none when it is set.
C8_ObsoleteStampConsumed ==
    (pc = "timesReturned" /\ NoSource /\ FirstIsStamp) =>
        /\ ret = "nil"
        /\ res.accessTime = ParsePosixTime(args[1], clock.year).time
        /\ res.modTime = res.accessTime
        /\ Len(res.files) = Len(args) - 1
        /\ \A k \in 1..Len(res.files) : res.files[k] = args[k + 1]
        /\ stderr = IF posixly = EmptyStr
                    THEN <<[tag |-> "warning: obsolete", subject |-> args[1],
                            detail |-> "use 'touch -t'"]>>
                    ELSE <<>>
        /\ mainCalls = <<>>

\* C8 witness: 'touch 2507131430 a' under POSIXLY_CORRECT: the times of
\* the stamp, the file a, no advisory.
C8_Witness ==
    /\ pc = "timesReturned"
    /\ NoSource
    /\ args = <<StampArg, FileA>>
    /\ posixly # EmptyStr
    /\ res = [accessTime |-> Date(2025, 7, 13, 14, 30, 0),
              modTime |-> Date(2025, 7, 13, 14, 30, 0), files |-> <<FileA>>]
    /\ stderr = <<>>

\* C9: with no source, if the list is empty or its first argument does not
\* parse as a POSIX stamp, calculateTimestamps returns access = modification
\* = core.Now(), the list unchanged and no error, and writes no advisory.
C9_DefaultsToNow ==
    (pc = "timesReturned" /\ NoSource /\ ~FirstIsStamp) =>
        /\ ret = "nil"
        /\ res.accessTime = clock
        /\ res.modTime = clock
        /\ res.files = args
        /\ stderr = <<>>
        /\ mainCalls = <<>>

\* C9 witness: an out-of-range stamp-like operand stays a file.
C9_Witness ==
    /\ pc = "timesReturned"
    /\ NoSource
    /\ args = <<StampBad, FileA>>
    /\ res = [accessTime |-> ClockNow, modTime |-> ClockNow, files |-> args]
    /\ ret = "nil"

\* C10: the list a successful calculateTimestamps returns is the input list
\* or the input list without its first element; the first element is removed
\* only when no source was given and it parses as a POSIX stamp, so with any
\* source given a stamp-like first argument remains an operand.
C10_DropsAtMostFirst ==
    (pc = "timesReturned" /\ ret = "nil") =>
        /\ res.files = args \/ (Len(args) >= 1 /\ res.files = Tail(args))
        /\ Len(res.files) # Len(args) => (NoSource /\ FirstIsStamp)
        /\ ~NoSource => res.files = args

\* C10 witness: with -t given, the stamp-like first operand is kept.
C10_Witness ==
    /\ pc = "timesReturned"
    /\ ret = "nil"
    /\ opts.tStamp = StampArg
    /\ opts.refFilePath = EmptyStr
    /\ args = <<StampArg, FileA>>
    /\ res.files = <<StampArg, FileA>>

\* C11: whenever timestamp resolution succeeds and leaves the file list
\* empty (no positional argument, or a single one consumed as an obsolete
\* stamp), RunTouch returns ErrMissingOperands and invokes Touch on no file.
C11_MissingOperands ==
    /\ [][(pc = "timesReturned" /\ ret = "nil" /\ Len(res.files) = 0) =>
             /\ pc' \in {"timesReturned", "done"}
             /\ pc' = "done" => ret' = "ErrMissingOperands"
             /\ tasks' = <<>>
             /\ fs' = fs]_vars
    /\ [](pc = "done" =>
             /\ ret = "ErrMissingOperands" => (tasks = <<>> /\ Len(res.files) = 0)
             /\ (/\ SourcesGiven(cmd) = 0
                 /\ cmd.time = EmptyStr
                 /\ args = <<>> \/ (Len(args) = 1 /\ FirstIsStamp)) =>
                    (ret = "ErrMissingOperands" /\ tasks = <<>> /\ loopIdx = 0))

\* C11 witness: 'touch 2507131430' consumed its only operand as a stamp.
C11_Witness ==
    /\ pc = "done"
    /\ args = <<StampArg>>
    /\ SourcesGiven(cmd) = 0
    /\ res.files = <<>>
    /\ res.accessTime = Date(2025, 7, 13, 14, 30, 0)
    /\ ret = "ErrMissingOperands"
    /\ tasks = <<>>

\* The stamp handed to ParsePosixTime, its part before the first '.', and
\* what follows that part.
TheStamp == args[1]
StampRun == IF IndexOf(TheStamp, ".") = -1 THEN TheStamp
            ELSE SubSeq(TheStamp, 1, IndexOf(TheStamp, "."))
StampSuffix == SubSeq(TheStamp, Len(StampRun) + 1, Len(TheStamp))

\* The stamp follows [[CC]YY]MMDDhhmm[.SS]: decimal digits only.
WellFormed ==
    /\ Len(StampRun) \in {8, 10, 12}
    /\ \A k \in 1..Len(StampRun) : IsDigit(StampRun[k])
    /\ \/ StampSuffix = <<>>
       \/ /\ Len(StampSuffix) = 3
          /\ StampSuffix[1] = "."
          /\ IsDigit(StampSuffix[2])
          /\ IsDigit(StampSuffix[3])

\* The two digits of s at positions k and k + 1, as a number.
Num2(s, k) == 10 * DigitVal(s[k]) + DigitVal(s[k + 1])

\* The fields of a well-formed stamp, read from the end of the digit run.
FieldMM == Num2(StampRun, Len(StampRun) - 7)
FieldDD == Num2(StampRun, Len(StampRun) - 5)
Fieldhh == Num2(StampRun, Len(StampRun) - 3)
Fieldmm == Num2(StampRun, Len(StampRun) - 1)
FieldSS == IF StampSuffix = <<>> THEN 0 ELSE Num2(StampSuffix, 2)

\* The year a well-formed stamp names.
FieldYear ==
    IF Len(StampRun) = 12 THEN 100 * Num2(StampRun, 1) + Num2(StampRun, 3)
    ELSE IF Len(StampRun) = 10
    THEN (IF Num2(StampRun, 1) < 69 THEN 2000 + Num2(StampRun, 1)
          ELSE 1900 + Num2(StampRun, 1))
    ELSE clock.year

\* Days of month FieldMM of year FieldYear.
FieldMonthLength ==
    IF FieldMM = 2
    THEN (IF (FieldYear % 4 = 0 /\ FieldYear % 100 # 0) \/ FieldYear % 400 = 0
          THEN 29 ELSE 28)
    ELSE IF FieldMM \in {4, 6, 9, 11} THEN 30 ELSE 31

\* ParsePosixTime has accepted a well-formed stamp.
AcceptedStamp == pc = "posixReturned" /\ ret = "nil" /\ WellFormed

\* C13 (as stated): every accepted stamp comes back with month, day, hour,
\* minute and second equal to its MM, DD, hh, mm and SS.
C13_FieldsRoundTrip ==
    AcceptedStamp =>
        /\ res.accessTime.month = FieldMM
        /\ res.accessTime.day = FieldDD
        /\ res.accessTime.hour = Fieldhh
        /\ res.accessTime.minute = Fieldmm
        /\ res.accessTime.second = FieldSS

\* C13 (amended): an accepted stamp whose SS is at most 59 and whose DD
\* exists in month MM of its year comes back with month, day, hour, minute
\* and second equal to MM, DD, hh, mm and SS (second 0 without a suffix).
\* Otherwise the time is normalised: SS of 60 or 61 comes back as second
\* SS - 60 of the following minute, and a DD past the end of the month as
\* day DD - (length of the month) of the following month.
C13_FieldsRoundTripInRange ==
    AcceptedStamp =>
        LET t == res.accessTime
            fits == FieldDD <= FieldMonthLength
        IN  /\ (FieldSS <= 59 /\ fits) =>
                  t = [year |-> FieldYear, month |-> FieldMM, day |-> FieldDD,
                       hour |-> Fieldhh, minute |-> Fieldmm, second |-> FieldSS]
            /\ FieldSS >= 60 =>
                  /\ t.second = FieldSS - 60
                  /\ t.minute = (Fieldmm + 1) % 60
            /\ (FieldSS <= 59 /\ ~fits) =>
                  t = [year |-> FieldYear, month |-> FieldMM + 1,
                       day |-> FieldDD - FieldMonthLength,
                       hour |-> Fieldhh, minute |-> Fieldmm, second |-> FieldSS]
            /\ res.modTime = t

\* C13 witness: 2024-12-31 23:59:59 round-trips.
C13_Witness ==
    /\ AcceptedStamp
    /\ TheStamp = <<"2", "0", "2", "4", "1", "2", "3", "1", "2", "3", "5", "9", ".", "5", "9">>
    /\ res.accessTime = [year |-> 2024, month |-> 12, day |-> 31,
                         hour |-> 23, minute |-> 59, second |-> 59]

\* The file-system calls a run has made: those of calculateTimestamps and
\* those of every Touch.
CallsMade == Len(mainCalls) + Cardinality({i \in TaskIds : tasks[i].calls # <<>>})

\* C12: a RunTouch that fails with an input-validation error (multiple time
\* sources, invalid --time value, missing operands) has made no file-system
\* call (Stat, Lstat, Create, Chtimes, SetTimesNoDeref) before returning.
C12_ValidationBeforeIO ==
    (pc = "done" /\ ret \in {"ErrMultipleTimeSources", "ErrInvalidTimeArg",
                             "ErrMissingOperands"}) => CallsMade = 0

\* Every field of a well-formed stamp is inside the range ParsePosixTime
\* documents.
FieldsInRange ==
    /\ FieldSS \in 0..61
    /\ FieldMM \in 1..12
    /\ FieldDD \in 1..31
    /\ Fieldhh \in 0..23
    /\ Fieldmm \in 0..59

\* C14: ParsePosixTime returns an error whenever the digit run (without the
\* optional .SS suffix) has a length other than 8, 10 or 12, or SS is
\* outside 0..61, or month is outside 1..12, day outside 1..31, hour outside
\* 0..23 or minute outside 0..59; and it accepts every all-digit input that
\* meets these constraints, a day the month does not have included.
C14_RangesDecideAcceptance ==
    pc = "posixReturned" =>
        /\ Len(StampRun) \notin {8, 10, 12} => ret # "nil"
        /\ WellFormed =>
              /\ (ret = "nil") <=> FieldsInRange
              /\ FieldSS > 61 => ret = "ErrInvalidSeconds"
              /\ (FieldSS <= 61 /\ ~FieldsInRange) => ret = "ErrInvalidDateTimeValues"
        /\ ret # "nil" => (res.accessTime = ZeroTime /\ res.modTime = ZeroTime)

\* C14 witness: February 31 of 2024 is accepted (and comes back as March 2).
C14_Witness ==
    /\ pc = "posixReturned"
    /\ TheStamp = <<"2", "0", "2", "4", "0", "2", "3", "1", "0", "0", "0", "0">>
    /\ ret = "nil"
    /\ res.accessTime = [year |-> 2024, month |-> 3, day |-> 2,
                         hour |-> 0, minute |-> 0, second |-> 0]

C16_DigitsOnly ==
    (pc = "posixReturned" /\ ret = "nil") => WellFormed

\* The string handed to ParseDate.
TheDate == args[1]

\* The 0-based position of the first ':' of TheDate, -1 when it has none.
ColonAt == IndexOf(TheDate, ":")

\* TheDate starts like a clock time (h:mm or hh:mm), not like a date.
TimeOnly == ColonAt \in {1, 2}

\* The formats in ParseDate's order that accept TheDate.
Accepting == {i \in 1..Len(formats) : ParseInLocation(formats[i], TheDate).ok}

\* The number written at 1-based positions from..to of TheDate.
RECURSIVE NumAt(_, _)
NumAt(from, to) ==
    IF from > to THEN 0 ELSE 10 * NumAt(from, to - 1) + DigitVal(TheDate[to])

\* The clock time written in TheDate, from the position of its first ':'.
WrittenHour ==
    IF ColonAt = -1 THEN 0
    ELSE IF ColonAt >= 2 /\ IsDigit(TheDate[ColonAt - 1]) THEN NumAt(ColonAt - 1, ColonAt)
    ELSE NumAt(ColonAt, ColonAt)
WrittenMinute == IF ColonAt = -1 THEN 0 ELSE NumAt(ColonAt + 2, ColonAt + 3)
WrittenSecond ==
    IF ColonAt # -1 /\ Len(TheDate) >= ColonAt + 6 /\ TheDate[ColonAt + 4] = ":"
    THEN NumAt(ColonAt + 5, ColonAt + 6) ELSE 0

C18_NoDerefNoFallback ==
    \A i \in TaskIds :
        (Returned(i) /\ StatGave(i, "nil") /\ opts.noDeref) =>
            /\ OpsOf(i) = <<"Stat", "SetTimesNoDeref">>
            /\ tasks[i].calls[2].path = tasks[i].file
            /\ tasks[i].calls[2].err = "ErrNoDerefUnsupported" <=> goos = "windows"
            /\ tasks[i].err = IF tasks[i].calls[2].err = "nil" THEN "nil"
                              ELSE "set times no deref"
            /\ (tasks[i].err # "nil" /\ Occurrences(tasks[i].file) = 1) =>
                  /\ fs[tasks[i].file].mtime = tasks[i].info.mtime
                  /\ fs[tasks[i].file].atime = OldAtime

\* C18 witness: the no-follow write was refused as unsupported and the run
\* ended with the file as it was.
C18_Witness ==
    /\ pc = "done"
    /\ ret = "ErrProcessingFiles"
    /\ opts.noDeref
    /\ \E i \in TaskIds :
          /\ OpsOf(i) = <<"Stat", "SetTimesNoDeref">>
          /\ tasks[i].calls[2].err = "ErrNoDerefUnsupported"
          /\ tasks[i].err = "set times no deref"
          /\ fs[tasks[i].file].mtime = OldMtime

\* C19: whenever Touch is called with noDeref, every timestamp write goes
\* through platform.SetTimesNoDeref and Chtimes is never invoked, whether
\* the path existed or was missing and has just been created.
C19_NoDerefNeverChtimes ==
    opts.noDeref =>
        \A i \in TaskIds : \A k \in 1..Len(tasks[i].calls) :
            tasks[i].calls[k].op # "Chtimes"

\* Number of advisory lines about -h on stderr.
WindowsWarnings ==
    Cardinality({k \in 1..Len(stderr) :
                    stderr[k].tag = "Warning: -h/--no-dereference is not supported on Windows"})

\* C20: in every RunTouch run on Windows, processFlags clears noDeref and,
\* when -h was given, exactly one advisory line is written (none otherwise);
\* neither Touch nor the reference lookup sees noDeref, SetTimesNoDeref is
\* never called and ErrNoDerefUnsupported is never returned.
C20_WindowsClearsNoDeref ==
    (goos = "windows" /\ pc # "processFlags") =>
        /\ opts.noDeref = FALSE
        /\ WindowsWarnings = IF cmd.noDeref THEN 1 ELSE 0
        /\ \A k \in 1..Len(mainCalls) : mainCalls[k].op = "Stat"
        /\ \A i \in TaskIds :
              /\ tasks[i].err # "set times no deref"
              /\ \A k \in 1..Len(tasks[i].calls) :
                    /\ tasks[i].calls[k].op \in {"Stat", "Create", "Chtimes"}
                    /\ tasks[i].calls[k].err # "ErrNoDerefUnsupported"
        /\ \A k \in 1..Len(stderr) : stderr[k].detail # "set times no deref"

\* C20 witness: 'touch -h a' on Windows updated a through Chtimes after one
\* advisory line.
C20_Witness ==
    /\ goos = "windows"
    /\ cmd.noDeref
    /\ pc = "done"
    /\ ret = "nil"
    /\ stderr = <<WindowsWarning>>
    /\ Len(tasks) = 1
    /\ OpsOf(1) = <<"Stat", "Chtimes">>
    /\ tasks[1].calls[2].err = "nil"

\* The --time values that select the access time and the modification time.
AccessWords == {TimeAtime, TimeAccess, TimeUse}
ModifyWords == {TimeModify, TimeMtime}

\* C21: on success processFlags returns a mask in {ChAtime, ChMtime,
\* ChAtime|ChMtime}, never 0: a recognised --time value (access|atime|use
\* -> ChAtime, modify|mtime -> ChMtime, in any case) decides the mask
\* whatever -a/-m are; without --time, -a alone gives ChAtime, -m alone
\* gives ChMtime, both or neither give ChAtime|ChMtime; an unrecognised
\* --time value yields ErrInvalidTimeArg.
C21_MaskNeverEmpty ==
    pc = "flagsReturned" =>
        /\ cmd.time \notin ({EmptyStr} \cup AccessWords \cup ModifyWords) <=>
              ret = "ErrInvalidTimeArg"
        /\ ret = "nil" =>
              /\ opts.changeTimes \in {1, 2, 3}
              /\ cmd.time \in AccessWords => opts.changeTimes = 1
              /\ cmd.time \in ModifyWords => opts.changeTimes = 2
              /\ cmd.time = EmptyStr =>
                    opts.changeTimes =
                        IF cmd.access /\ ~cmd.modification THEN 1
                        ELSE IF cmd.modification /\ ~cmd.access THEN 2
                        ELSE 3
              /\ opts.noCreate = cmd.noCreate
        /\ ret # "nil" => opts.changeTimes = 0

\* C21 witness: --time=Use with -m given returns the access-only mask.
C21_Witness ==
    /\ pc = "flagsReturned"
    /\ ret = "nil"
    /\ cmd.time = TimeUse
    /\ cmd.modification
    /\ ~cmd.access
    /\ opts.changeTimes = 1

\* How many calls of task i are among the operations ops.
CallCount(i, ops) ==
    Cardinality({k \in 1..Len(tasks[i].calls) : tasks[i].calls[k].op \in ops})

\* C22: when the initial Stat fails with an error other than not-found,
\* Touch returns a 'stat file' error and calls neither Create nor Chtimes
\* nor SetTimesNoDeref; and in every execution Touch performs exactly one
\* Stat, at most one Create and at most one timestamp write.
C22_StatErrorIsFinal ==
    \A i \in TaskIds :
        /\ CallCount(i, {"Stat"}) <= 1
        /\ CallCount(i, {"Create"}) <= 1
        /\ CallCount(i, {"Chtimes", "SetTimesNoDeref"}) <= 1
        /\ tasks[i].pc # "stat" => CallCount(i, {"Stat"}) = 1
        /\ (Returned(i) /\ tasks[i].calls[1].err \notin {"nil", "ErrNotExist"}) =>
              /\ OpsOf(i) = <<"Stat">>
              /\ tasks[i].err = "stat file"
              /\ Occurrences(tasks[i].file) = 1 =>
                    /\ fs[tasks[i].file].atime = OldAtime
                    /\ fs[tasks[i].file].mtime = OldMtime

\* C22 witness: a Stat refused with a permission error ended the task.
C22_Witness ==
    \E i \in TaskIds :
        /\ tasks[i].pc = "exited"
        /\ OpsOf(i) = <<"Stat">>
        /\ tasks[i].calls[1].err = "ErrPermission"
        /\ tasks[i].err = "stat file"
        /\ ~opts.noCreate


\* C23: with a reference path, calculateTimestamps makes exactly one
\* file-system call on it, Lstat when noDeref is set and Stat otherwise; when
\* the metadata that call yields exists, the modification time returned is
\* its ModTime and the access time is its access time, or its ModTime when
\* the metadata carries no platform structure; when the call fails the error
\* is 'get reference times' with zero times and no file list.
RefMetadata ==
    IF opts.noDeref THEN fs[opts.refFilePath]
    ELSE fs[Resolve(fs, opts.refFilePath)]

C23_ReferenceTimes ==
    (pc = "timesReturned" /\ opts.refFilePath # EmptyStr) =>
        /\ Len(mainCalls) = 1
        /\ mainCalls[1].op = (IF opts.noDeref THEN "Lstat" ELSE "Stat")
        /\ mainCalls[1].path = opts.refFilePath
        /\ IF RefMetadata.exists
           THEN /\ ret = "nil"
                /\ res.modTime = RefMetadata.mtime
                /\ res.accessTime = (IF RefMetadata.sys THEN RefMetadata.atime
                                     ELSE RefMetadata.mtime)
                /\ res.files = args
           ELSE /\ ret = "get reference times"
                /\ res = ZeroRes

C23_Witness ==
    /\ pc = "timesReturned"
    /\ opts.refFilePath = RefPath
    /\ opts.noDeref
    /\ fs[RefPath].link = FileB
    /\ fs[FileB].exists
    /\ mainCalls[1].op = "Lstat"
    /\ res.accessTime = RefAtime
    /\ res.modTime = RefMtime


\* C24: calculateTimestamps fails exactly when the reference cannot be
\* stat'ed, the -t stamp is malformed or the -d string is unrecognised; it
\* then returns zero times and no file list, RunTouch returns that same error
\* as its next step, no Touch task was ever started, and no step up to the
\* return changes the file system.
CalcErrors == {"get reference times", "parse POSIX stamp", "parse date"}

BeforeApply == {"processFlags", "flagsReturned", "calculateTimestamps", "timesReturned"}

CalcFailure ==
    IF opts.refFilePath # EmptyStr
    THEN (IF GetTimesFromRef(fs, opts.refFilePath, opts.noDeref).err # "nil"
          THEN "get reference times" ELSE "nil")
    ELSE IF opts.tStamp # EmptyStr
    THEN (IF ParsePosixTime(opts.tStamp, clock.year).ok THEN "nil"
          ELSE "parse POSIX stamp")
    ELSE IF opts.dateStr # EmptyStr
    THEN (IF ParseDate(opts.dateStr, clock).ok THEN "nil" ELSE "parse date")
    ELSE "nil"

C24_FailedTimesTouchNothing ==
    /\ [](pc = "timesReturned" => ret = CalcFailure)
    /\ [](ret \in CalcErrors =>
            /\ pc \in {"timesReturned", "done"}
            /\ res = ZeroRes
            /\ tasks = <<>>
            /\ \A k \in 1..Len(mainCalls) : mainCalls[k].op \in {"Stat", "Lstat"})
    /\ [][(pc = "timesReturned" /\ ret # "nil") =>
             (pc' = "done" /\ ret' = ret /\ tasks' = <<>>)]_vars
    /\ [][(pc \in BeforeApply) => (fs' = fs)]_vars

C24_Witness ==
    /\ pc = "done"
    /\ ret = "parse POSIX stamp"
    /\ opts.tStamp = StampBad
    /\ Len(args) = 2
    /\ res = ZeroRes
    /\ tasks = <<>>


\* C25: the wait counter always equals the number of goroutines launched
\* and not yet finished (each signals once, failed or not); applyToFiles is
\* past the wait only when every operand's goroutine was launched and has
\* finished; when no operand is on a file system that never answers,
\* applyToFiles eventually returns; when one is, applyToFiles never returns,
\* while the goroutine of every other operand still finishes.
Unfinished == {i \in TaskIds : tasks[i].pc # "exited"}

SomeHung == \E k \in 1..Len(res.files) : Hung(fs, res.files[k])

C25_JoinTerminates ==
    /\ [](wg = Cardinality(Unfinished))
    /\ [](pc \in {"loadError", "done"} =>
            (Len(tasks) = Len(res.files) /\ Unfinished = {}))
    /\ []((pc = "applyToFiles" /\ loopIdx = Len(res.files) /\ Unfinished = {}) =>
            ENABLED Wait)
    /\ (~SomeHung) ~> (pc = "done")
    /\ [](SomeHung => pc = "applyToFiles")
    /\ \A i \in 1..MaxArgs :
          (i <= Len(res.files) /\ ~Hung(fs, res.files[i])) ~>
              (i \in TaskIds /\ tasks[i].pc = "exited")

C25_Witness ==
    /\ pc = "done"
    /\ Len(tasks) = 2
    /\ tasks[1].err # "nil"
    /\ tasks[2].err = "nil"
    /\ wg = 0


\* C26: the failure flag starts false and, once true, stays true; it changes
\* only in the step of a goroutine that stores into it after its Touch
\* failed; the dispatcher is at its read of the flag only when every
\* operand's goroutine was launched and has finished, the flag then tells
\* whether any Touch failed, and the value returned is ErrProcessingFiles
\* exactly in that case.
SomeTouchFailed == \E i \in TaskIds : tasks[i].err # "nil"

C26_FailureFlagMonotone ==
    /\ [][hadError => hadError']_vars
    /\ [][(hadError' # hadError) =>
             (\E i \in TaskIds : /\ tasks[i].pc = "store"
                                 /\ tasks[i].err # "nil"
                                 /\ tasks'[i].pc = "wgDone")]_vars
    /\ [](pc \in {"loadError", "done"} =>
            /\ Len(tasks) = Len(res.files)
            /\ \A i \in TaskIds : tasks[i].pc = "exited"
            /\ hadError = SomeTouchFailed)
    /\ [](pc = "done" => (ret = "ErrProcessingFiles" <=> SomeTouchFailed))
    /\ [](pc = "done" => (ret = "nil" <=> ~SomeTouchFailed))

C26_Witness ==
    /\ pc = "done"
    /\ Len(tasks) = 2
    /\ tasks[1].err # "nil"
    /\ tasks[2].err # "nil"
    /\ hadError
    /\ ret = "ErrProcessingFiles"


\* C27: when Touch with noDeref has written the times of an operand that is
\* a symbolic link, and no other operand names the link, the link's own
\* modification time is what it was before the call if the mask excludes
\* modification, and its own access time is what it was before the call if
\* the mask excludes access.
WroteLink(i) ==
    /\ tasks[i].pc = "exited"
    /\ tasks[i].err = "nil"
    /\ fs[tasks[i].file].link # EmptyStr
    /\ Occurrences(tasks[i].file) = 1
    /\ OpsOf(i) = <<"Stat", "SetTimesNoDeref">>

C27_LinkKeepsUnselectedTime ==
    \A i \in TaskIds :
        (opts.noDeref /\ WroteLink(i)) =>
            /\ ~HasBit(opts.changeTimes, ChMtime) =>
                   fs[tasks[i].file].mtime = LinkMtime
            /\ ~HasBit(opts.changeTimes, ChAtime) =>
                   fs[tasks[i].file].atime = LinkAtime


\* C28: whenever RunTouch is in applyToFiles, at most one source flag was
\* given, neither the access nor the modification time handed over is the
\* zero time, and the two are equal unless the source is a reference file.
C28_TimesDefined ==
    pc \in {"applyToFiles", "loadError"} =>
        /\ SourcesGiven(cmd) <= 1
        /\ res.accessTime # ZeroTime
        /\ res.modTime # ZeroTime
        /\ opts.refFilePath = EmptyStr => res.accessTime = res.modTime


\* C29: when applyToFiles has returned without a failure and creation is
\* allowed, the times of every operand are fixed by the inputs alone, the
\* same for every interleaving: a time the mask selects is the one handed
\* over; one it leaves out is the one handed over if the path was missing
\* at first (it was created and both times written) and the path's old one
\* otherwise (for the access time, the old modification time where the
\* platform exposes no access time).
WasMissing(p) ==
    \E i \in TaskIds : tasks[i].file = p /\ tasks[i].calls[1].err = "ErrNotExist"

C29_FinalTimesFixed ==
    (pc = "done" /\ ret = "nil" /\ ~opts.noCreate) =>
        \A k \in 1..Len(res.files) :
            LET p == res.files[k]
            IN  /\ fs[p].atime = (IF HasBit(opts.changeTimes, ChAtime) \/ WasMissing(p)
                                  THEN res.accessTime
                                  ELSE IF fs[p].sys THEN OldAtime ELSE OldMtime)
                /\ fs[p].mtime = (IF HasBit(opts.changeTimes, ChMtime) \/ WasMissing(p)
                                  THEN res.modTime ELSE OldMtime)


\* C30: each of the two timevals handed to Lutimes has a microsecond part
\* from 0 to 999999, and its seconds and microseconds together are the
\* instant given, cut to whole microseconds.
Normalised(tv, t) ==
    /\ 0 <= tv.Usec
    /\ tv.Usec < MicrosPerSecond
    /\ tv.Sec * MicrosPerSecond + tv.Usec = UnixMicro(t)

C30_TimevalNormalised ==
    pc = "lutimesCalled" =>
        /\ Normalised(mainCalls[1].atime, res.accessTime)
        /\ Normalised(mainCalls[1].mtime, res.modTime)

====
